---- MODULE Spec2Model ----
(***************************************************************************)
(* A model of taggart's catalog consistency and query subsystem: the      *)
(* files / categories / tags / file_tags tables, the upload directory and  *)
(* its thumbnails, and the handlers that move a file through upload,       *)
(* rename and delete, tag it, and resolve bulk tag queries.                *)
(*                                                                         *)
(* Strings are sequences of one-character strings, so that TrimSpace,      *)
(* ToUpper, Split and the path helpers are computed as the Go code         *)
(* computes them.  Every request handler is a process: its position is     *)
(* pc[p], its Go locals are loc[p].                                        *)
(***************************************************************************)
EXTENDS Integers, Sequences, FiniteSets, TLC

(* ------------------------------------------------------------------ *)
(* Bounds of the model                                                 *)
(* ------------------------------------------------------------------ *)

\* files rows ever inserted (AUTOINCREMENT ids 1..MaxFiles)
MaxFiles == 2

Procs == {1, 2}

(* ------------------------------------------------------------------ *)
(* Strings                                                             *)
(* ------------------------------------------------------------------ *)

EmptyStr == << >>

Lower == [c \in {"A", "B", "C", "O", "R", "X", "Y"} |->
            CASE c = "A" -> "a" [] c = "B" -> "b" [] c = "C" -> "c"
              [] c = "O" -> "o" [] c = "R" -> "r" [] c = "X" -> "x"
              [] c = "Y" -> "y"]

Upper == [c \in {"a", "b", "c", "o", "r", "x", "y"} |->
            CASE c = "a" -> "A" [] c = "b" -> "B" [] c = "c" -> "C"
              [] c = "o" -> "O" [] c = "r" -> "R" [] c = "x" -> "X"
              [] c = "y" -> "Y"]

ToUpperChar(c) == IF c \in DOMAIN Upper THEN Upper[c] ELSE c

ToLowerChar(c) == IF c \in DOMAIN Lower THEN Lower[c] ELSE c

ToUpper(s) == [i \in 1..Len(s) |-> ToUpperChar(s[i])]

ToLower(s) == [i \in 1..Len(s) |-> ToLowerChar(s[i])]

EqualFold(s, t) == ToLower(s) = ToLower(t)

IsSpace(c) == c \in {" ", "\t", "\n"}

RECURSIVE TrimLeft(_)
TrimLeft(s) ==
    IF s = << >> THEN s
    ELSE IF IsSpace(Head(s)) THEN TrimLeft(Tail(s)) ELSE s

RECURSIVE TrimRight(_)
TrimRight(s) ==
    IF s = << >> THEN s
    ELSE IF IsSpace(s[Len(s)]) THEN TrimRight(SubSeq(s, 1, Len(s) - 1)) ELSE s

TrimSpace(s) == TrimRight(TrimLeft(s))

HasPrefix(s, pre) == Len(pre) <= Len(s) /\ SubSeq(s, 1, Len(pre)) = pre

\* the first index at which sep occurs in s, 0 when it does not
IndexOf(s, sep) ==
    LET hits == {i \in 1..(Len(s) - Len(sep) + 1) : SubSeq(s, i, i + Len(sep) - 1) = sep}
    IN IF hits = {} THEN 0 ELSE CHOOSE i \in hits : \A j \in hits : i <= j

Contains(s, sep) == IndexOf(s, sep) # 0

\* strings.Split(s, sep) for a non-empty sep
RECURSIVE Split(_, _)
Split(s, sep) ==
    LET i == IndexOf(s, sep)
    IN IF i = 0 THEN << s >>
       ELSE << SubSeq(s, 1, i - 1) >> \o Split(SubSeq(s, i + Len(sep), Len(s)), sep)

\* strings.SplitN(s, sep, 2)
SplitN2(s, sep) ==
    LET i == IndexOf(s, sep)
    IN IF i = 0 THEN << s >>
       ELSE << SubSeq(s, 1, i - 1), SubSeq(s, i + Len(sep), Len(s)) >>

\* strings.ReplaceAll(s, old, new) for a non-empty old
RECURSIVE ReplaceAll(_, _, _)
ReplaceAll(s, old, new) ==
    LET i == IndexOf(s, old)
    IN IF i = 0 THEN s
       ELSE SubSeq(s, 1, i - 1) \o new \o ReplaceAll(SubSeq(s, i + Len(old), Len(s)), old, new)

\* filepath.Ext: the suffix beginning at the last dot ("" without a dot)
Ext(s) ==
    LET dots == {i \in 1..Len(s) : s[i] = "."}
    IN IF dots = {} THEN << >>
       ELSE SubSeq(s, CHOOSE i \in dots : \A j \in dots : j <= i, Len(s))

(* ------------------------------------------------------------------ *)
(* Names and paths.  A path is relative to config.UploadDir, so         *)
(* filepath.Join(config.UploadDir, name) is the name itself; thumbnails  *)
(* are kept as the set of names n with thumbnails/<n>.jpg present.       *)
(* ------------------------------------------------------------------ *)

NameA == << "a" >>

NameB == << "b" >>

NameV == << "v", ".", "m", "p", "4" >>

UploadNames == {NameA, NameV}

JoinUploadDir(filename) == filename

TmpPath(finalPath) == finalPath \o << ".", "t", "m", "p" >>

VideoExts ==
    { << ".", "m", "p", "4" >>, << ".", "m", "o", "v" >>, << ".", "a", "v", "i" >>,
      << ".", "m", "k", "v" >>, << ".", "w", "e", "b", "m" >>, << ".", "m", "4", "v" >> }

IsVideoName(filename) == ToLower(Ext(filename)) \in VideoExts

Codecs == {"h264", "hevc"}

(* ------------------------------------------------------------------ *)
(* The filesystem: disk maps each existing path of the upload root to   *)
(* the state of its content.                                           *)
(* ------------------------------------------------------------------ *)

Exists(d, path) == path \in DOMAIN d

Put(d, path, content) ==
    [q \in (DOMAIN d) \cup {path} |-> IF q = path THEN content ELSE d[q]]

Del(d, path) == [q \in (DOMAIN d) \ {path} |-> d[q]]

\* os.Rename replaces the destination
Move(d, src, dst) == Put(Del(d, src), dst, d[src])

EmptyDisk == [q \in {} |-> "full"]

(* ------------------------------------------------------------------ *)
(* The catalog (schema of main): files, categories, tags, file_tags,    *)
(* and the AUTOINCREMENT sequence of files.                             *)
(* ------------------------------------------------------------------ *)

EmptyDB ==
    [files |-> {}, categories |-> {}, tags |-> {}, file_tags |-> {}, seq |-> 0]

FileRow(id, filename, path) ==
    [id |-> id, filename |-> filename, path |-> path, description |-> EmptyStr]

RowsById(d, id) == {f \in d.files : f.id = id}

\* INSERT INTO files (filename, path, description) VALUES (?, ?, '')
InsertFile(d, filename, path) ==
    [d EXCEPT !.files = @ \cup {FileRow(d.seq + 1, filename, path)}, !.seq = @ + 1]

\* UPDATE files SET filename=?, path=? without the WHERE clause
UpdateFileNameAll(d, id, filename, path) ==
    [d EXCEPT !.files = {[f EXCEPT !.filename = filename, !.path = path] : f \in @}]

\* UPDATE files SET filename=?, path=? WHERE id=?
UpdateFileName(d, id, filename, path) ==
    [d EXCEPT !.files =
        {IF f.id = id THEN [f EXCEPT !.filename = filename, !.path = path] ELSE f : f \in @}]

\* DELETE FROM file_tags WHERE file_id=?
DeleteFileTagsOf(d, id) ==
    [d EXCEPT !.file_tags = {ft \in @ : ft.file_id # id}]

\* DELETE FROM files WHERE id=?
DeleteFileRow(d, id) ==
    [d EXCEPT !.files = {f \in @ : f.id # id}]

(* ------------------------------------------------------------------ *)
(* Catalog reads and writes of the tag tables                          *)
(* ------------------------------------------------------------------ *)

\* SELECT id FROM categories WHERE name=?
CategoryIds(d, name) == {c.id : c \in {x \in d.categories : x.name = name}}

\* SELECT id FROM tags WHERE category_id=? AND value=?
TagIds(d, catID, value) ==
    {t.id : t \in {x \in d.tags : x.category_id = catID /\ x.value = value}}

\* INSERT INTO categories(name) VALUES(?): ids are AUTOINCREMENT and rows are never deleted
InsertCategory(d, name) ==
    [d EXCEPT !.categories = @ \cup {[id |-> Cardinality(@) + 1, name |-> name]}]

\* INSERT INTO tags(category_id, value) VALUES(?, ?)
InsertTag(d, catID, value) ==
    [d EXCEPT !.tags =
        @ \cup {[id |-> Cardinality(@) + 1, category_id |-> catID, value |-> value]}]

\* INSERT OR IGNORE INTO file_tags(file_id, tag_id) VALUES (?, ?)
LinkFileTag(d, fileID, tagID) ==
    [d EXCEPT !.file_tags = @ \cup {[file_id |-> fileID, tag_id |-> tagID]}]

\* DELETE FROM file_tags WHERE file_id=? AND tag_id=?
UnlinkFileTag(d, fileID, tagID) ==
    [d EXCEPT !.file_tags = @ \ {[file_id |-> fileID, tag_id |-> tagID]}]

\* DELETE FROM file_tags WHERE file_id=? AND tag_id IN (SELECT t.id FROM tags t
\* WHERE t.category_id=?)
UnlinkCategory(d, fileID, catID) ==
    [d EXCEPT !.file_tags =
        {ft \in @ : ~(ft.file_id = fileID
                      /\ \E t \in d.tags : t.id = ft.tag_id /\ t.category_id = catID)}]

\* the file carries a tag of that category name and value (the EXISTS subquery, and
\* the joins, of the tag queries)
HasTag(d, fileID, category, value) ==
    \E ft \in d.file_tags, t \in d.tags, c \in d.categories :
        /\ ft.file_id = fileID /\ ft.tag_id = t.id /\ t.category_id = c.id
        /\ c.name = category /\ t.value = value

\* ORDER BY id over a set of ids
RECURSIVE Ascending(_)
Ascending(S) ==
    IF S = {} THEN << >>
    ELSE LET m == CHOOSE x \in S : \A y \in S : x <= y
         IN << m >> \o Ascending(S \ {m})

SeqToSet(q) == {q[i] : i \in 1..Len(q)}

(* ------------------------------------------------------------------ *)
(* parseFileIDRange                                                    *)
(* ------------------------------------------------------------------ *)

Digits == << "0", "1", "2", "3", "4", "5", "6", "7", "8", "9" >>

IsDigit(c) == \E i \in 1..Len(Digits) : Digits[i] = c

DigitValue(c) == (CHOOSE i \in 1..Len(Digits) : Digits[i] = c) - 1

RECURSIVE DigitsValue(_)
DigitsValue(s) ==
    IF s = << >> THEN 0
    ELSE DigitsValue(SubSeq(s, 1, Len(s) - 1)) * 10 + DigitValue(s[Len(s)])

\* strconv.Atoi, for values that fit an int
Atoi(s) ==
    LET signed == s # << >> /\ Head(s) \in {"+", "-"}
        body == IF signed THEN Tail(s) ELSE s
        ok == body # << >> /\ \A i \in 1..Len(body) : IsDigit(body[i])
    IN [ok |-> ok,
        val |-> IF ~ok THEN 0
                ELSE IF signed /\ Head(s) = "-" THEN 0 - DigitsValue(body)
                ELSE DigitsValue(body)]

IntRange(start, end) == [i \in 1..(end - start + 1) |-> start + i - 1]

\* parseFileIDRange without its second loop
KeepDuplicates(q) == q

\* the second loop of parseFileIDRange: the first occurrence of each id, in order
RECURSIVE UniqueIDs(_)
UniqueIDs(q) ==
    IF q = << >> THEN << >>
    ELSE LET front == UniqueIDs(SubSeq(q, 1, Len(q) - 1))
             last == q[Len(q)]
         IN IF last \in SeqToSet(front) THEN front ELSE Append(front, last)

ParseError(part) == [ok |-> FALSE, ids |-> << >>, bad |-> part]

\* the first loop of parseFileIDRange over the remaining parts
RECURSIVE ParseRangeParts(_, _)
ParseRangeParts(parts, fileIDs) ==
    IF parts = << >> THEN [ok |-> TRUE, ids |-> UniqueIDs(fileIDs), bad |-> EmptyStr]
    ELSE LET part == TrimSpace(Head(parts))
             rest == Tail(parts)
         IN IF part = EmptyStr THEN ParseRangeParts(rest, fileIDs)
            ELSE IF Contains(part, << "-" >>)
            THEN LET rangeParts == Split(part, << "-" >>)
                 IN IF Len(rangeParts) # 2 THEN ParseError(part)
                    ELSE LET start == Atoi(TrimSpace(rangeParts[1]))
                             end == Atoi(TrimSpace(rangeParts[2]))
                         IN IF ~start.ok \/ ~end.ok THEN ParseError(part)
                            ELSE IF start.val > end.val THEN ParseError(part)
                            ELSE ParseRangeParts(rest,
                                     fileIDs \o IntRange(start.val, end.val))
            ELSE LET id == Atoi(part)
                 IN IF ~id.ok THEN ParseError(part)
                    ELSE ParseRangeParts(rest, Append(fileIDs, id.val))

\* parseFileIDRange reading the parts up to the first one it cannot parse
parseFileIDRangeLenient(rangeStr) ==
    LET parts == Split(rangeStr, << "," >>)
        good == {n \in 0..Len(parts) :
                    ParseRangeParts(SubSeq(parts, 1, n), << >>).ok}
        last == CHOOSE n \in good : \A m \in good : m <= n
    IN ParseRangeParts(SubSeq(parts, 1, last), << >>)

parseFileIDRange(rangeStr) == ParseRangeParts(Split(rangeStr, << "," >>), << >>)

VARIABLES
    disk,       \* path -> "partial" | "full", the entries of the upload root
    thumbs,     \* the names n with thumbnails/<n>.jpg on disk
    db,         \* the committed catalog
    tx,         \* the open write transaction: its owner (0: none) and its view
    pc,         \* the position of each request handler
    loc,        \* the Go locals of each request handler and its outcome
    pre,        \* disk, thumbnails and catalog as they were when the request began
    obs,        \* whether requests are observed: pre is taken and outcomes are kept
    everCleanupFailed,  \* some os.Remove or os.Rename whose error is ignored has failed
    config      \* the loaded configuration: TagAliases and ItemsPerPage

(* ------------------------------------------------------------------ *)
(* config.TagAliases and expandTagWithAliases                          *)
(* ------------------------------------------------------------------ *)

TagAliases == << [Category |-> << "c" >>, Aliases |-> << << "x" >>, << "y" >> >>] >>

\* the values appended for the first group of the category that holds the value
RECURSIVE AliasesOfFirstGroup(_, _, _)
AliasesOfFirstGroup(groups, category, value) ==
    IF groups = << >> THEN << >>
    ELSE LET group == Head(groups)
             found == /\ group.Category = category
                      /\ \E i \in 1..Len(group.Aliases) : EqualFold(group.Aliases[i], value)
         IN IF found
            THEN SelectSeq(group.Aliases, LAMBDA alias : ~EqualFold(alias, value))
            ELSE AliasesOfFirstGroup(Tail(groups), category, value)

\* the configuration the other specifications run with
LoadedConfig == [TagAliases |-> TagAliases, ItemsPerPage |-> << "2" >>]

expandTagWithAliases(category, value) ==
    << value >> \o AliasesOfFirstGroup(config.TagAliases, category, value)

(* ------------------------------------------------------------------ *)
(* getFileIDsFromTagQuery                                              *)
(* ------------------------------------------------------------------ *)

OrSep == << " ", "O", "R", " " >>

QueryError == [ok |-> FALSE, ids |-> << >>]

\* the loop of getFileIDsFromANDQuery and getFileIDsFromORQuery over the pairs:
\* a sequence of TagPair, or an error for a pair without ':'
RECURSIVE ParseTagPairs(_)
ParseTagPairs(tagPairs) ==
    IF tagPairs = << >> THEN [ok |-> TRUE, tags |-> << >>]
    ELSE LET pair == TrimSpace(Head(tagPairs))
             rest == ParseTagPairs(Tail(tagPairs))
         IN IF pair = EmptyStr THEN rest
            ELSE LET parts == SplitN2(pair, << ":" >>)
                 IN IF Len(parts) # 2 THEN [ok |-> FALSE, tags |-> << >>]
                    ELSE IF ~rest.ok THEN rest
                    ELSE [ok |-> TRUE,
                          tags |-> << [Category |-> TrimSpace(parts[1]),
                                       Value |-> TrimSpace(parts[2])] >> \o rest.tags]

\* findFilesWithAllTags matching a tag through its alias group as the filter path does
findFilesWithAllTagsAliased(d, tags) ==
    IF tags = << >> THEN QueryError
    ELSE [ok |-> TRUE,
          ids |-> Ascending({f.id : f \in {g \in d.files :
                     \A i \in 1..Len(tags) :
                        \E v \in SeqToSet(expandTagWithAliases(tags[i].Category,
                                                                tags[i].Value)) :
                           HasTag(d, g.id, tags[i].Category, v)}})]

\* SELECT f.id FROM files f WHERE EXISTS (...) AND EXISTS (...) ORDER BY f.id
findFilesWithAllTags(d, tags) ==
    IF tags = << >> THEN QueryError
    ELSE [ok |-> TRUE,
          ids |-> Ascending({f.id : f \in {g \in d.files :
                     \A i \in 1..Len(tags) :
                        HasTag(d, g.id, tags[i].Category, tags[i].Value)}})]

\* SELECT DISTINCT f.id FROM files f INNER JOIN file_tags ... WHERE (...) OR (...)
\* ORDER BY f.id
findFilesWithAnyTag(d, tags) ==
    IF tags = << >> THEN QueryError
    ELSE [ok |-> TRUE,
          ids |-> Ascending({f.id : f \in {g \in d.files :
                     \E i \in 1..Len(tags) :
                        HasTag(d, g.id, tags[i].Category, tags[i].Value)}})]

getFileIDsFromANDQuery(d, query) ==
    LET parsed == ParseTagPairs(Split(query, << "," >>))
    IN IF ~parsed.ok \/ parsed.tags = << >> THEN QueryError
       ELSE findFilesWithAllTags(d, parsed.tags)

getFileIDsFromORQuery(d, query) ==
    LET parsed == ParseTagPairs(Split(ToUpper(query), OrSep))
    IN IF ~parsed.ok \/ parsed.tags = << >> THEN QueryError
       ELSE findFilesWithAnyTag(d, parsed.tags)

getFileIDsFromTagQuery(d, rawQuery) ==
    LET query == TrimSpace(rawQuery)
    IN IF query = EmptyStr THEN QueryError
       ELSE IF Contains(ToUpper(query), OrSep) THEN getFileIDsFromORQuery(d, query)
       ELSE getFileIDsFromANDQuery(d, query)

\* validateFileIDs finding every requested id
NoMissingIDs(d, fileIDs) == {}

\* validateFileIDs: the requested ids without a files row
MissingIDs(d, fileIDs) == {id \in SeqToSet(fileIDs) : RowsById(d, id) = {}}

(* ------------------------------------------------------------------ *)
(* getOrphanedFiles                                                    *)
(* ------------------------------------------------------------------ *)

ThumbnailsDir == << "t", "h", "u", "m", "b", "n", "a", "i", "l", "s" >>

\* os.ReadDir(uploadDir): the files of the upload root and, once generateThumbnail
\* has made it, the directory thumbnails
ReadDir(d, withDir) ==
    {[Name |-> n, IsDir |-> FALSE] : n \in DOMAIN d}
        \cup (IF withDir THEN {[Name |-> ThumbnailsDir, IsDir |-> TRUE]} ELSE {})

\* for _, e := range entries { if !e.IsDir() { files = append(files, e.Name()) } }
NonDirNames(entries) == {e.Name : e \in {x \in entries : ~x.IsDir}}

\* os.ReadDir(uploadDir) without the directories: thumbnails/ is a directory
getFilesOnDisk(d) == NonDirNames(ReadDir(d, TRUE))

\* SELECT filename FROM files
getFilesInDB(catalog) == {f.filename : f \in catalog.files}

\* every listed name reported, whether catalogued or not
AllListed(diskFiles, dbFiles) == diskFiles

\* for _, f := range diskFiles { if !dbFiles[f] { orphans = append(orphans, f) } }
Orphaned(diskFiles, dbFiles) == {f \in diskFiles : f \notin dbFiles}

getOrphanedFiles(d, catalog) == Orphaned(getFilesOnDisk(d), getFilesInDB(catalog))

vars == << disk, thumbs, db, tx, pc, loc, pre, obs, everCleanupFailed, config >>

NoTx == [owner |-> 0, view |-> EmptyDB]

NoSel == [mode |-> "", text |-> EmptyStr, form |-> "", pairs |-> << >>]

NoLoc ==
    [op |-> "", id |-> 0, name |-> EmptyStr, cur |-> EmptyStr, curPath |-> EmptyStr,
     cat |-> EmptyStr, val |-> EmptyStr, catID |-> 0, tagID |-> 0,
     sel |-> NoSel, oper |-> "", ids |-> << >>, k |-> 0, missing |-> {},
     filters |-> << >>, total |-> 0, page |-> 0, perPage |-> 0,
     raw |-> EmptyStr, bad |-> EmptyStr,
     listed |-> {}, orphans |-> {}, seen |-> {},
     res |-> "", failed |-> "", cleanupFailed |-> FALSE]

NoSnap == [disk |-> EmptyDisk, thumbs |-> {}, db |-> EmptyDB, cleanupFailed |-> FALSE]

Snapshot ==
    IF obs THEN [disk |-> disk, thumbs |-> thumbs, db |-> db,
                 cleanupFailed |-> everCleanupFailed]
    ELSE NoSnap

Init ==
    /\ disk = EmptyDisk
    /\ thumbs = {}
    /\ db = EmptyDB
    /\ tx = NoTx
    /\ pc = [p \in Procs |-> "idle"]
    /\ loc = [p \in Procs |-> NoLoc]
    /\ pre = [p \in Procs |-> NoSnap]
    /\ obs = TRUE
    /\ everCleanupFailed = FALSE
    /\ config = LoadedConfig

Idle(p) == pc[p] \in {"idle", "done"}

\* a statement outside a transaction takes the write lock for itself
CanWrite(p) == tx.owner = 0

\* history of a getOrphanedFiles call of q that is between its two reads: the names
\* that were on disk and not catalogued in a state the call has lived through
Witnessed(q) ==
    IF pc[q] = "o_query"
    THEN [loc[q] EXCEPT !.seen = @ \cup getOrphanedFiles(disk', db')]
    ELSE loc[q]

\* the handler returns: res is what the caller is told, failed the step that failed
Return(p, l, res, failed) ==
    /\ pc' = [pc EXCEPT ![p] = IF obs THEN "done" ELSE "idle"]
    /\ loc' = [q \in Procs |->
                  IF q = p
                  THEN IF obs THEN [l EXCEPT !.res = res, !.failed = failed] ELSE NoLoc
                  ELSE Witnessed(q)]
    /\ everCleanupFailed' = (everCleanupFailed \/ l.cleanupFailed)

Goto(p, l, to) ==
    /\ pc' = [pc EXCEPT ![p] = to]
    /\ loc' = [q \in Procs |-> IF q = p THEN l ELSE Witnessed(q)]
    /\ everCleanupFailed' = (everCleanupFailed \/ l.cleanupFailed)

\* os.Remove whose error is ignored or only logged: ok says whether it succeeded
RemoveIgnoringError(d, path, ok) == IF ok /\ Exists(d, path) THEN Del(d, path) ELSE d

\* os.Rename whose error is ignored
RenameIgnoringError(d, src, dst, ok) == IF ok /\ Exists(d, src) THEN Move(d, src, dst) ELSE d

NoteCleanup(l, d, path, ok) ==
    [l EXCEPT !.cleanupFailed = @ \/ (~ok /\ Exists(d, path))]

(* ------------------------------------------------------------------ *)
(* processUpload                                                       *)
(* ------------------------------------------------------------------ *)

\* processUpload without checkFileConflictStrict
UploadCheckSkipped(p, filename) ==
    /\ Idle(p)
    /\ db.seq < MaxFiles
    /\ pre' = [pre EXCEPT ![p] = Snapshot]
    /\ UNCHANGED << disk, thumbs, db, tx, obs, config >>
    /\ Goto(p, [NoLoc EXCEPT !.op = "upload", !.name = filename,
                             !.curPath = JoinUploadDir(filename)], "u_create")

\* checkFileConflictStrict: os.Stat(finalPath)
UploadCheck(p, filename) ==
    /\ Idle(p)
    /\ db.seq < MaxFiles
    /\ pre' = [pre EXCEPT ![p] = Snapshot]
    /\ UNCHANGED << disk, thumbs, db, tx, obs, config >>
    /\ LET l == [NoLoc EXCEPT !.op = "upload", !.name = filename,
                              !.curPath = JoinUploadDir(filename)]
       IN \/ /\ Exists(disk, l.curPath)
             /\ Return(p, l, "conflict", "check")
          \/ /\ ~Exists(disk, l.curPath)
             /\ Goto(p, l, "u_create")

\* os.Create(tempPath)
UploadCreate(p) ==
    /\ pc[p] = "u_create"
    /\ UNCHANGED << thumbs, db, tx, pre, obs, config >>
    /\ \/ /\ disk' = Put(disk, TmpPath(loc[p].curPath), "partial")
          /\ Goto(p, loc[p], "u_copy")
       \/ /\ disk' = disk
          /\ Return(p, loc[p], "error", "create")

\* io.Copy(tempFile, src); on error os.Remove(tempPath)
UploadCopy(p) ==
    /\ pc[p] = "u_copy"
    /\ UNCHANGED << thumbs, db, tx, pre, obs, config >>
    /\ LET tmp == TmpPath(loc[p].curPath)
       IN \/ /\ disk' = IF Exists(disk, tmp) THEN Put(disk, tmp, "full") ELSE disk
             /\ Goto(p, loc[p], IF IsVideoName(loc[p].name) THEN "u_probe" ELSE "u_move")
          \/ \E ok \in BOOLEAN :
                /\ disk' = RemoveIgnoringError(disk, tmp, ok)
                /\ Return(p, NoteCleanup(loc[p], disk, tmp, ok), "error", "copy")

\* processVideoFile: detectVideoCodec(tempPath); on error the caller removes tempPath
UploadProbe(p) ==
    /\ pc[p] = "u_probe"
    /\ UNCHANGED << thumbs, db, tx, pre, obs, config >>
    /\ LET tmp == TmpPath(loc[p].curPath)
       IN \/ /\ Exists(disk, tmp)
             /\ disk' = disk
             /\ \E codec \in Codecs :
                   Goto(p, loc[p], IF codec = "hevc" THEN "u_reencode" ELSE "u_move")
          \/ \E ok \in BOOLEAN :
                /\ disk' = RemoveIgnoringError(disk, tmp, ok)
                /\ Return(p, NoteCleanup(loc[p], disk, tmp, ok), "error", "probe")

\* reencodeHEVCToH264(tempPath, finalPath): ffmpeg opens finalPath and starts writing
\* (it is run without -y, so it refuses to replace an existing output)
UploadReencodeStart(p) ==
    /\ pc[p] = "u_reencode"
    /\ UNCHANGED << thumbs, db, tx, pre, obs, config >>
    /\ LET tmp == TmpPath(loc[p].curPath)
           final == loc[p].curPath
       IN \/ /\ Exists(disk, tmp) /\ ~Exists(disk, final)
             /\ disk' = Put(disk, final, "partial")
             /\ Goto(p, loc[p], "u_encoding")
          \/ \E ok \in BOOLEAN :
                /\ disk' = RemoveIgnoringError(disk, tmp, ok)
                /\ Return(p, NoteCleanup(loc[p], disk, tmp, ok), "error", "reencode")

\* ffmpeg ends: the output is complete, or it failed and what it wrote stays;
\* then os.Remove(tempPath), in processVideoFile on success and in processUpload on error
UploadReencodeEnd(p) ==
    /\ pc[p] = "u_encoding"
    /\ UNCHANGED << thumbs, db, tx, pre, obs, config >>
    /\ LET tmp == TmpPath(loc[p].curPath)
           final == loc[p].curPath
       IN \E ok \in BOOLEAN :
             \/ /\ Exists(disk, final)
                /\ disk' = RemoveIgnoringError(Put(disk, final, "full"), tmp, ok)
                /\ Goto(p, NoteCleanup(loc[p], disk, tmp, ok), "u_save")
             \/ /\ disk' = RemoveIgnoringError(disk, tmp, ok)
                /\ Return(p, NoteCleanup(loc[p], disk, tmp, ok), "error", "reencode")

\* os.Rename(tempPath, finalPath), in processVideoFile for a video and in processUpload
\* otherwise; only the video path removes tempPath when the rename fails
UploadMove(p) ==
    /\ pc[p] = "u_move"
    /\ UNCHANGED << thumbs, db, tx, pre, obs, config >>
    /\ LET tmp == TmpPath(loc[p].curPath)
           final == loc[p].curPath
           video == IsVideoName(loc[p].name)
       IN \/ /\ Exists(disk, tmp)
             /\ disk' = Move(disk, tmp, final)
             /\ Goto(p, loc[p], IF video THEN "u_thumb" ELSE "u_save")
          \/ /\ video
             /\ \E ok \in BOOLEAN :
                   /\ disk' = RemoveIgnoringError(disk, tmp, ok)
                   /\ Return(p, NoteCleanup(loc[p], disk, tmp, ok), "error", "move")
          \/ /\ ~video
             /\ disk' = disk
             /\ Return(p, loc[p], "error", "move")

\* generateThumbnail(finalPath, config.UploadDir, filepath.Base(finalPath)): its error
\* is logged only
UploadThumb(p) ==
    /\ pc[p] = "u_thumb"
    /\ UNCHANGED << disk, db, tx, pre, obs, config >>
    /\ Goto(p, loc[p], "u_save")
    /\ \/ /\ Exists(disk, loc[p].curPath)
          /\ thumbs' = thumbs \cup {loc[p].name}
       \/ thumbs' = thumbs

\* saveFileToDatabase(finalFilename, processedPath); on error os.Remove(processedPath)
UploadSave(p) ==
    /\ pc[p] = "u_save"
    /\ UNCHANGED << thumbs, tx, pre, obs, config >>
    /\ \/ /\ CanWrite(p)
          /\ db' = InsertFile(db, loc[p].name, loc[p].curPath)
          /\ disk' = disk
          /\ Return(p, [loc[p] EXCEPT !.id = db.seq + 1], "ok", "")
       \/ \E ok \in BOOLEAN :
             /\ db' = db
             /\ disk' = RemoveIgnoringError(disk, loc[p].curPath, ok)
             /\ Return(p, NoteCleanup(loc[p], disk, loc[p].curPath, ok), "error", "save")

Upload(p) ==
    \/ \E filename \in UploadNames : UploadCheck(p, filename)
    \/ UploadCreate(p)
    \/ UploadCopy(p)
    \/ UploadProbe(p)
    \/ UploadReencodeStart(p)
    \/ UploadReencodeEnd(p)
    \/ UploadMove(p)
    \/ UploadThumb(p)
    \/ UploadSave(p)

(* ------------------------------------------------------------------ *)
(* fileRenameHandler                                                   *)
(* ------------------------------------------------------------------ *)

FileStr == << "f", "i", "l", "e" >>

Underscore == << "_" >>

sanitizeFilename(filename) ==
    IF filename = EmptyStr THEN FileStr
    ELSE LET r == ReplaceAll(ReplaceAll(ReplaceAll(filename, << "/" >>, Underscore),
                                        << "\\" >>, Underscore),
                             << ".", "." >>, Underscore)
         IN IF r = EmptyStr THEN FileStr ELSE r

RenameInputs == {NameA, NameV}

\* newFilename := sanitizeFilename(strings.TrimSpace(...)); the empty-name check;
\* SELECT filename, path FROM files WHERE id=?; the same-name shortcut
RenameStart(p, id, raw) ==
    /\ Idle(p)
    /\ pre' = [pre EXCEPT ![p] = Snapshot]
    /\ UNCHANGED << disk, thumbs, db, tx, obs, config >>
    /\ LET newFilename == sanitizeFilename(TrimSpace(raw))
           l == [NoLoc EXCEPT !.op = "rename", !.id = id, !.name = newFilename,
                             !.raw = raw]
       IN IF newFilename = EmptyStr
          THEN Return(p, l, "invalid", "validate")
          ELSE \/ /\ RowsById(db, id) = {}
                  /\ Return(p, l, "notfound", "lookup")
               \/ \E f \in RowsById(db, id) :
                     LET lf == [l EXCEPT !.cur = f.filename, !.curPath = f.path]
                     IN IF f.filename = newFilename
                        THEN Return(p, lf, "ok", "")
                        ELSE Goto(p, lf, "r_stat")

\* os.Stat(newPath): anything but "does not exist" is a conflict
RenameStat(p) ==
    /\ pc[p] = "r_stat"
    /\ UNCHANGED << disk, thumbs, db, tx, pre, obs, config >>
    /\ IF Exists(disk, JoinUploadDir(loc[p].name))
       THEN Return(p, loc[p], "conflict", "check")
       ELSE Goto(p, loc[p], "r_rename")

\* os.Rename(currentPath, newPath)
RenameFile(p) ==
    /\ pc[p] = "r_rename"
    /\ UNCHANGED << thumbs, db, tx, pre, obs, config >>
    /\ \/ /\ Exists(disk, loc[p].curPath)
          /\ disk' = Move(disk, loc[p].curPath, JoinUploadDir(loc[p].name))
          /\ Goto(p, loc[p], "r_thumb")
       \/ /\ disk' = disk
          /\ Return(p, loc[p], "error", "rename")

\* fileRenameHandler without the thumbnail step
RenameThumbSkipped(p) ==
    /\ pc[p] = "r_thumb"
    /\ UNCHANGED << disk, thumbs, db, tx, pre, obs, config >>
    /\ Goto(p, loc[p], "r_update")

\* the thumbnail step without os.Rename(newPath, currentPath) on failure
RenameThumbUnreversed(p) ==
    /\ pc[p] = "r_thumb"
    /\ UNCHANGED << disk, db, tx, pre, obs, config >>
    /\ \/ /\ loc[p].cur \notin thumbs
          /\ thumbs' = thumbs
          /\ Goto(p, loc[p], "r_update")
       \/ /\ loc[p].cur \in thumbs
          /\ thumbs' = (thumbs \ {loc[p].cur}) \cup {loc[p].name}
          /\ Goto(p, loc[p], "r_update")
       \/ /\ loc[p].cur \in thumbs
          /\ thumbs' = thumbs
          /\ Return(p, loc[p], "error", "thumb")

\* os.Stat(thumbOld) and os.Rename(thumbOld, thumbNew); if that fails,
\* os.Rename(newPath, currentPath)
RenameThumb(p) ==
    /\ pc[p] = "r_thumb"
    /\ UNCHANGED << db, tx, pre, obs, config >>
    /\ LET newPath == JoinUploadDir(loc[p].name)
       IN \/ /\ loc[p].cur \notin thumbs
             /\ UNCHANGED << disk, thumbs >>
             /\ Goto(p, loc[p], "r_update")
          \/ /\ loc[p].cur \in thumbs
             /\ thumbs' = (thumbs \ {loc[p].cur}) \cup {loc[p].name}
             /\ disk' = disk
             /\ Goto(p, loc[p], "r_update")
          \/ /\ loc[p].cur \in thumbs
             /\ thumbs' = thumbs
             /\ \E ok \in BOOLEAN :
                   /\ disk' = RenameIgnoringError(disk, newPath, loc[p].curPath, ok)
                   /\ Return(p, NoteCleanup(loc[p], disk, newPath, ok), "error", "thumb")

\* the thumbnails after the rollback of a failed UPDATE: if os.Stat(thumbNew)
\* succeeds, os.Rename(thumbNew, thumbOld)
RollbackThumb(t, thumbOld, thumbNew, ok) ==
    IF thumbNew \in t /\ ok THEN (t \ {thumbNew}) \cup {thumbOld} ELSE t

\* UPDATE files SET filename=?, path=? WHERE id=?; if it fails,
\* os.Rename(newPath, currentPath) and the thumbnail rollback
RenameUpdate(p) ==
    /\ pc[p] = "r_update"
    /\ UNCHANGED << tx, pre, obs, config >>
    /\ LET newPath == JoinUploadDir(loc[p].name)
       IN \/ /\ CanWrite(p)
             /\ db' = UpdateFileName(db, loc[p].id, loc[p].name, newPath)
             /\ UNCHANGED << disk, thumbs >>
             /\ Return(p, loc[p], "ok", "")
          \/ \E ok1, ok2 \in BOOLEAN :
                /\ db' = db
                /\ disk' = RenameIgnoringError(disk, newPath, loc[p].curPath, ok1)
                /\ thumbs' = RollbackThumb(thumbs, loc[p].cur, loc[p].name, ok2)
                /\ Return(p, [NoteCleanup(loc[p], disk, newPath, ok1) EXCEPT
                                 !.cleanupFailed = @ \/ (~ok2 /\ loc[p].name \in thumbs)],
                          "error", "update")

Rename(p) ==
    \/ \E id \in 1..MaxFiles, raw \in RenameInputs : RenameStart(p, id, raw)
    \/ RenameStat(p)
    \/ RenameFile(p)
    \/ RenameThumb(p)
    \/ RenameUpdate(p)

(* ------------------------------------------------------------------ *)
(* fileDeleteHandler                                                   *)
(* ------------------------------------------------------------------ *)

\* the transaction is rolled back (defer tx.Rollback()) and the handler returns
Rollback(p, failed) ==
    /\ tx' = NoTx
    /\ db' = db
    /\ Return(p, loc[p], "error", failed)

\* SELECT id, filename, path FROM files WHERE id=?
DeleteStart(p, id) ==
    /\ Idle(p)
    /\ pre' = [pre EXCEPT ![p] = Snapshot]
    /\ UNCHANGED << disk, thumbs, db, tx, obs, config >>
    /\ LET l == [NoLoc EXCEPT !.op = "delete", !.id = id]
       IN \/ /\ RowsById(db, id) = {}
             /\ Return(p, l, "notfound", "lookup")
          \/ \E f \in RowsById(db, id) :
                Goto(p, [l EXCEPT !.cur = f.filename, !.curPath = f.path], "d_begin")

\* db.Begin()
DeleteBegin(p) ==
    /\ pc[p] = "d_begin"
    /\ UNCHANGED << disk, thumbs, db, pre, obs, config >>
    /\ \/ /\ tx.owner = 0
          /\ tx' = [owner |-> p, view |-> db]
          /\ Goto(p, loc[p], "d_tags")
       \/ /\ tx' = tx
          /\ Return(p, loc[p], "error", "begin")

\* the DELETE executed on db instead of tx
DeleteTagsOutsideTx(p) ==
    /\ pc[p] = "d_tags"
    /\ UNCHANGED << disk, thumbs, pre, obs, config >>
    /\ \/ /\ db' = DeleteFileTagsOf(db, loc[p].id)
          /\ tx' = tx
          /\ Goto(p, loc[p], "d_row")
       \/ Rollback(p, "delete_tags")

\* tx.Exec("DELETE FROM file_tags WHERE file_id=?")
DeleteTags(p) ==
    /\ pc[p] = "d_tags"
    /\ UNCHANGED << disk, thumbs, pre, obs, config >>
    /\ \/ /\ tx' = [tx EXCEPT !.view = DeleteFileTagsOf(@, loc[p].id)]
          /\ db' = db
          /\ Goto(p, loc[p], "d_row")
       \/ Rollback(p, "delete_tags")

\* the DELETE of the row together with os.Remove(currentFile.Path), before the commit
DeleteRowAndFile(p) ==
    /\ pc[p] = "d_row"
    /\ UNCHANGED << thumbs, pre, obs, config >>
    /\ \/ /\ tx' = [tx EXCEPT !.view = DeleteFileRow(@, loc[p].id)]
          /\ db' = db
          /\ disk' = RemoveIgnoringError(disk, loc[p].curPath, TRUE)
          /\ Goto(p, loc[p], "d_commit")
       \/ /\ disk' = disk
          /\ Rollback(p, "delete_row")

\* tx.Exec("DELETE FROM files WHERE id=?")
DeleteRow(p) ==
    /\ pc[p] = "d_row"
    /\ UNCHANGED << disk, thumbs, pre, obs, config >>
    /\ \/ /\ tx' = [tx EXCEPT !.view = DeleteFileRow(@, loc[p].id)]
          /\ db' = db
          /\ Goto(p, loc[p], "d_commit")
       \/ Rollback(p, "delete_row")

\* tx.Commit()
DeleteCommit(p) ==
    /\ pc[p] = "d_commit"
    /\ UNCHANGED << disk, thumbs, pre, obs, config >>
    /\ \/ /\ db' = tx.view
          /\ tx' = NoTx
          /\ Goto(p, loc[p], "d_file")
       \/ Rollback(p, "commit")

\* os.Remove(currentFile.Path) whose failure ends the request with an error
DeleteFileStrict(p) ==
    /\ pc[p] = "d_file"
    /\ UNCHANGED << thumbs, db, tx, pre, obs, config >>
    /\ \/ /\ disk' = RemoveIgnoringError(disk, loc[p].curPath, TRUE)
          /\ Goto(p, loc[p], "d_thumb")
       \/ /\ disk' = disk
          /\ Return(p, NoteCleanup(loc[p], disk, loc[p].curPath, FALSE), "error", "remove")

\* os.Remove(currentFile.Path): a failure is logged only
DeleteFile(p) ==
    /\ pc[p] = "d_file"
    /\ UNCHANGED << thumbs, db, tx, pre, obs, config >>
    /\ \E ok \in BOOLEAN :
          /\ disk' = RemoveIgnoringError(disk, loc[p].curPath, ok)
          /\ Goto(p, NoteCleanup(loc[p], disk, loc[p].curPath, ok), "d_thumb")

\* os.Stat(thumbPath) and os.Remove(thumbPath): a failure is logged only
DeleteThumb(p) ==
    /\ pc[p] = "d_thumb"
    /\ UNCHANGED << disk, db, tx, pre, obs, config >>
    /\ \E ok \in BOOLEAN :
          /\ thumbs' = IF ok THEN thumbs \ {loc[p].cur} ELSE thumbs
          /\ Return(p, [loc[p] EXCEPT !.cleanupFailed = @ \/ (~ok /\ loc[p].cur \in thumbs)],
                    "ok", "")

Delete(p) ==
    \/ \E id \in 1..MaxFiles : DeleteStart(p, id)
    \/ DeleteBegin(p)
    \/ DeleteTags(p)
    \/ DeleteRow(p)
    \/ DeleteCommit(p)
    \/ DeleteFile(p)
    \/ DeleteThumb(p)

(* ------------------------------------------------------------------ *)
(* fileHandler, POST of a category and a value: getOrCreateCategoryAndTag *)
(* and the INSERT into file_tags, each statement on its own             *)
(* ------------------------------------------------------------------ *)

CatC == << "c" >>

ValX == << "x" >>

ValY == << "y" >>

TagCats == {CatC}

TagVals == {ValX, ValY}

\* SELECT ... FROM files WHERE id=?; the category and the value are trimmed and a
\* request without both only redirects (the value "!" is not among the inputs)
TagStart(p, id, rawCat, rawVal) ==
    /\ Idle(p)
    /\ pre' = [pre EXCEPT ![p] = Snapshot]
    /\ UNCHANGED << disk, thumbs, db, tx, obs, config >>
    /\ LET cat == TrimSpace(rawCat)
           val == TrimSpace(rawVal)
           l == [NoLoc EXCEPT !.op = "tag", !.id = id, !.cat = cat, !.val = val]
       IN \/ /\ RowsById(db, id) = {}
             /\ Return(p, l, "notfound", "lookup")
          \/ /\ RowsById(db, id) # {}
             /\ IF cat # EmptyStr /\ val # EmptyStr
                THEN Goto(p, l, "t_selcat")
                ELSE Return(p, l, "ok", "")

\* SELECT id FROM categories WHERE name=?
TagSelectCategory(p) ==
    /\ pc[p] = "t_selcat"
    /\ UNCHANGED << disk, thumbs, db, tx, pre, obs, config >>
    /\ \/ \E cid \in CategoryIds(db, loc[p].cat) :
             Goto(p, [loc[p] EXCEPT !.catID = cid], "t_seltag")
       \/ /\ CategoryIds(db, loc[p].cat) = {}
          /\ Goto(p, loc[p], "t_inscat")
       \/ Return(p, loc[p], "error", "select_cat")

\* INSERT INTO categories(name) VALUES(?): name is UNIQUE, and an error is returned
TagInsertCategory(p) ==
    /\ pc[p] = "t_inscat"
    /\ UNCHANGED << disk, thumbs, tx, pre, obs, config >>
    /\ \/ /\ CanWrite(p)
          /\ CategoryIds(db, loc[p].cat) = {}
          /\ db' = InsertCategory(db, loc[p].cat)
          /\ Goto(p, [loc[p] EXCEPT !.catID = Cardinality(db.categories) + 1], "t_seltag")
       \/ /\ db' = db
          /\ Return(p, loc[p], "error", "insert_cat")

\* SELECT id FROM tags WHERE category_id=? AND value=?
TagSelectTag(p) ==
    /\ pc[p] = "t_seltag"
    /\ UNCHANGED << disk, thumbs, db, tx, pre, obs, config >>
    /\ \/ \E tid \in TagIds(db, loc[p].catID, loc[p].val) :
             Goto(p, [loc[p] EXCEPT !.tagID = tid], "t_link")
       \/ /\ TagIds(db, loc[p].catID, loc[p].val) = {}
          /\ Goto(p, loc[p], "t_instag")
       \/ Return(p, loc[p], "error", "select_tag")

\* INSERT INTO tags(category_id, value) VALUES(?, ?): UNIQUE(category_id, value)
TagInsertTag(p) ==
    /\ pc[p] = "t_instag"
    /\ UNCHANGED << disk, thumbs, tx, pre, obs, config >>
    /\ \/ /\ CanWrite(p)
          /\ TagIds(db, loc[p].catID, loc[p].val) = {}
          /\ db' = InsertTag(db, loc[p].catID, loc[p].val)
          /\ Goto(p, [loc[p] EXCEPT !.tagID = Cardinality(db.tags) + 1], "t_link")
       \/ /\ db' = db
          /\ Return(p, loc[p], "error", "insert_tag")

\* INSERT OR IGNORE INTO file_tags(file_id, tag_id) VALUES (?, ?)
TagLink(p) ==
    /\ pc[p] = "t_link"
    /\ UNCHANGED << disk, thumbs, tx, pre, obs, config >>
    /\ \/ /\ CanWrite(p)
          /\ db' = LinkFileTag(db, loc[p].id, loc[p].tagID)
          /\ Return(p, loc[p], "ok", "")
       \/ /\ db' = db
          /\ Return(p, loc[p], "error", "link")

TagAdd(p, values) ==
    \/ \E id \in 1..MaxFiles, rawCat \in TagCats, rawVal \in values :
          TagStart(p, id, rawCat, rawVal)
    \/ TagSelectCategory(p)
    \/ TagInsertCategory(p)
    \/ TagSelectTag(p)
    \/ TagInsertTag(p)
    \/ TagLink(p)

(* ------------------------------------------------------------------ *)
(* bulkTagHandler: the selection, validateFileIDs, applyBulkTagOperations *)
(* ------------------------------------------------------------------ *)

Colon == << ":" >>

FormatPair(pair) == pair.Category \o Colon \o pair.Value

\* the pairs written one after the other with sep between them
RECURSIVE JoinPairs(_, _)
JoinPairs(pairs, sep) ==
    IF Len(pairs) = 1 THEN FormatPair(pairs[1])
    ELSE FormatPair(pairs[1]) \o sep \o JoinPairs(Tail(pairs), sep)

OrSeps == {OrSep, << " ", "o", "r", " " >>}

RangeSelections ==
    {[mode |-> "range", text |-> t, form |-> "", pairs |-> << >>] :
        t \in { << "1" >>, << "2", ",", "1", "-", "2" >>, << "2", "-", "3" >>,
                << "2", "-", "1" >> }}

AndSelections ==
    {[mode |-> "tags", text |-> JoinPairs(ps, << "," >>), form |-> "and", pairs |-> ps] :
        ps \in {<< [Category |-> CatC, Value |-> ValX] >>,
                << [Category |-> CatC, Value |-> ValY] >>,
                << [Category |-> CatC, Value |-> ValX],
                   [Category |-> CatC, Value |-> ValY] >>}}

OrSelections ==
    {[mode |-> "tags", text |-> JoinPairs(ps, sep), form |-> "or", pairs |-> ps] :
        ps \in {<< [Category |-> CatC, Value |-> ValX],
                   [Category |-> CatC, Value |-> ValY] >>},
        sep \in OrSeps}

BulkSelections == RangeSelections \cup AndSelections \cup OrSelections

\* the category, the value and the operation of a bulk request
BulkChange(category, value, operation) ==
    [category |-> category, value |-> value, operation |-> operation]

BulkChanges ==
    {BulkChange(CatC, ValX, "add"), BulkChange(CatC, ValY, "add"),
     BulkChange(CatC, ValX, "remove"), BulkChange(CatC, EmptyStr, "remove"),
     BulkChange(CatC, ValY, "move")}

\* the form values are trimmed and validated, and the selection is resolved by
\* parseFileIDRange or by getFileIDsFromTagQuery
BulkStart(p, sel, rawCat, rawVal, oper) ==
    /\ Idle(p)
    /\ pre' = [pre EXCEPT ![p] = Snapshot]
    /\ UNCHANGED << disk, thumbs, db, tx, obs, config >>
    /\ LET text == TrimSpace(sel.text)
           category == TrimSpace(rawCat)
           value == TrimSpace(rawVal)
           l == [NoLoc EXCEPT !.op = "bulk", !.sel = sel, !.cat = category,
                              !.val = value, !.oper = oper]
           parsed == IF sel.mode = "range" THEN parseFileIDRange(text)
                     ELSE getFileIDsFromTagQuery(db, text)
           lp == [l EXCEPT !.ids = parsed.ids,
                           !.bad = IF sel.mode = "range" THEN parsed.bad ELSE EmptyStr]
       IN IF text = EmptyStr \/ category = EmptyStr \/ (oper = "add" /\ value = EmptyStr)
          THEN Return(p, l, "invalid", "form")
          ELSE IF ~parsed.ok THEN Return(p, lp, "invalid", "selection")
          ELSE IF sel.mode = "tags" /\ parsed.ids = << >>
          THEN Return(p, lp, "nomatch", "selection")
          ELSE Goto(p, lp, "b_validate")

\* validateFileIDs(fileIDs)
BulkValidate(p) ==
    /\ pc[p] = "b_validate"
    /\ UNCHANGED << disk, thumbs, db, tx, pre, obs, config >>
    /\ IF loc[p].ids = << >> THEN Return(p, loc[p], "invalid", "validate")
       ELSE \/ Return(p, loc[p], "error", "validate_query")
            \/ LET missingIDs == MissingIDs(db, loc[p].ids)
                   l == [loc[p] EXCEPT !.missing = missingIDs]
               IN IF missingIDs # {} THEN Return(p, l, "invalid", "validate")
                  ELSE Goto(p, l, "b_begin")

\* applyBulkTagOperations: the checks of category and value, and db.Begin()
BulkBegin(p) ==
    /\ pc[p] = "b_begin"
    /\ UNCHANGED << disk, thumbs, db, pre, obs, config >>
    /\ IF loc[p].cat = EmptyStr \/ (loc[p].oper = "add" /\ loc[p].val = EmptyStr)
       THEN tx' = tx /\ Return(p, loc[p], "error", "apply_check")
       ELSE \/ /\ tx.owner = 0
               /\ tx' = [owner |-> p, view |-> db]
               /\ Goto(p, loc[p], "b_cat")
            \/ /\ tx' = tx
               /\ Return(p, loc[p], "error", "begin")

\* tx.QueryRow("SELECT id FROM categories WHERE name=?") and, when there is none,
\* the error of a removal or tx.Exec("INSERT INTO categories(name) VALUES(?)")
BulkCategory(p) ==
    /\ pc[p] = "b_cat"
    /\ UNCHANGED << disk, thumbs, pre, obs, config >>
    /\ \/ \E cid \in CategoryIds(tx.view, loc[p].cat) :
             /\ UNCHANGED << db, tx >>
             /\ Goto(p, [loc[p] EXCEPT !.catID = cid], "b_tag")
       \/ /\ CategoryIds(tx.view, loc[p].cat) = {}
          /\ IF loc[p].oper = "remove" THEN Rollback(p, "no_category")
             ELSE /\ tx' = [tx EXCEPT !.view = InsertCategory(@, loc[p].cat)]
                  /\ db' = db
                  /\ Goto(p, [loc[p] EXCEPT
                                 !.catID = Cardinality(tx.view.categories) + 1], "b_tag")
       \/ Rollback(p, "category")

\* tx.QueryRow("SELECT id FROM tags WHERE category_id=? AND value=?") and, when
\* there is none, the error of a removal or tx.Exec("INSERT INTO tags ...")
BulkTag(p) ==
    /\ pc[p] = "b_tag"
    /\ UNCHANGED << disk, thumbs, pre, obs, config >>
    /\ IF loc[p].val = EmptyStr
       THEN /\ UNCHANGED << db, tx >>
            /\ Goto(p, [loc[p] EXCEPT !.k = 1], "b_file")
       ELSE \/ \E tid \in TagIds(tx.view, loc[p].catID, loc[p].val) :
                  /\ UNCHANGED << db, tx >>
                  /\ Goto(p, [loc[p] EXCEPT !.tagID = tid, !.k = 1], "b_file")
            \/ /\ TagIds(tx.view, loc[p].catID, loc[p].val) = {}
               /\ IF loc[p].oper = "remove" THEN Rollback(p, "no_tag")
                  ELSE /\ tx' = [tx EXCEPT
                                    !.view = InsertTag(@, loc[p].catID, loc[p].val)]
                       /\ db' = db
                       /\ Goto(p, [loc[p] EXCEPT
                                      !.tagID = Cardinality(tx.view.tags) + 1, !.k = 1],
                               "b_file")
            \/ Rollback(p, "tag")

\* the statement applyBulkTagOperations executes for one file
BulkStatement(view, oper, fileID, catID, tagID, value) ==
    IF oper = "add" THEN LinkFileTag(view, fileID, tagID)
    ELSE IF value # EmptyStr THEN UnlinkFileTag(view, fileID, tagID)
    ELSE UnlinkCategory(view, fileID, catID)

\* one turn of the loop with the statement executed on db instead of tx
BulkFileOutsideTx(p) ==
    /\ pc[p] = "b_file"
    /\ UNCHANGED << disk, thumbs, pre, obs, config >>
    /\ IF loc[p].oper \notin {"add", "remove"} THEN Rollback(p, "invalid_op")
       ELSE \/ /\ db' = BulkStatement(db, loc[p].oper, loc[p].ids[loc[p].k],
                                      loc[p].catID, loc[p].tagID, loc[p].val)
               /\ tx' = [tx EXCEPT !.view =
                            BulkStatement(@, loc[p].oper, loc[p].ids[loc[p].k],
                                          loc[p].catID, loc[p].tagID, loc[p].val)]
               /\ Goto(p, [loc[p] EXCEPT !.k = @ + 1],
                       IF loc[p].k = Len(loc[p].ids) THEN "b_commit" ELSE "b_file")
            \/ Rollback(p, "exec")

\* one turn of the loop over fileIDs
BulkFile(p) ==
    /\ pc[p] = "b_file"
    /\ UNCHANGED << disk, thumbs, pre, obs, config >>
    /\ IF loc[p].oper \notin {"add", "remove"} THEN Rollback(p, "invalid_op")
       ELSE \/ /\ tx' = [tx EXCEPT !.view =
                            BulkStatement(@, loc[p].oper, loc[p].ids[loc[p].k],
                                          loc[p].catID, loc[p].tagID, loc[p].val)]
               /\ db' = db
               /\ Goto(p, [loc[p] EXCEPT !.k = @ + 1],
                       IF loc[p].k = Len(loc[p].ids) THEN "b_commit" ELSE "b_file")
            \/ Rollback(p, "exec")

\* tx.Commit()
BulkCommit(p) ==
    /\ pc[p] = "b_commit"
    /\ UNCHANGED << disk, thumbs, pre, obs, config >>
    /\ \/ /\ db' = tx.view
          /\ tx' = NoTx
          /\ Return(p, loc[p], "ok", "")
       \/ Rollback(p, "commit")

Bulk(p, selections, changes) ==
    \/ \E sel \in selections, ch \in changes :
          BulkStart(p, sel, ch.category, ch.value, ch.operation)
    \/ BulkValidate(p)
    \/ BulkBegin(p)
    \/ BulkCategory(p)
    \/ BulkTag(p)
    \/ BulkFile(p)
    \/ BulkCommit(p)

(* ------------------------------------------------------------------ *)
(* Range strings for bulkTagHandler, written from their tokens          *)
(* ------------------------------------------------------------------ *)

RECURSIVE Itoa(_)
Itoa(n) ==
    IF n < 10 THEN << Digits[n + 1] >>
    ELSE Itoa(n \div 10) \o << Digits[(n % 10) + 1] >>

Dash == << "-" >>

Space == << " " >>

\* a token: its text, whether it is valid, and the ids it stands for
IdToken(n) == [text |-> Itoa(n), ok |-> TRUE, ids |-> {n}]

RangeToken(start, end) ==
    [text |-> Itoa(start) \o Dash \o Itoa(end), ok |-> start <= end,
     ids |-> IF start <= end THEN start..end ELSE {}]

SpacedRangeToken(start, end) ==
    [text |-> Space \o Itoa(start) \o Space \o Dash \o Space \o Itoa(end) \o Space,
     ok |-> start <= end, ids |-> IF start <= end THEN start..end ELSE {}]

BadToken(text) == [text |-> text, ok |-> FALSE, ids |-> {}]

EmptyToken == [text |-> Space, ok |-> TRUE, ids |-> {}]

RangeTokens ==
    {IdToken(1), IdToken(2), IdToken(3), RangeToken(1, 2), RangeToken(2, 3),
     SpacedRangeToken(1, 3), EmptyToken,
     RangeToken(3, 1), BadToken(<< "a" >>), BadToken(<< "1", "-", "a" >>)}

RECURSIVE JoinTokens(_)
JoinTokens(tokens) ==
    IF Len(tokens) = 1 THEN tokens[1].text
    ELSE tokens[1].text \o << "," >> \o JoinTokens(Tail(tokens))

\* every string of one or two tokens, and every string of three of the tokens
\* 2, 1-2 and a
RangeTokenLists ==
    {<< t >> : t \in RangeTokens}
    \cup {<< t, u >> : t \in RangeTokens, u \in RangeTokens}
    \cup {<< t, u, v >> : t \in {IdToken(2), RangeToken(1, 2), BadToken(<< "a" >>)},
                          u \in {IdToken(2), RangeToken(1, 2), BadToken(<< "a" >>)},
                          v \in {IdToken(2), RangeToken(1, 2), BadToken(<< "a" >>)}}

RangeInputs ==
    {[mode |-> "range", text |-> JoinTokens(ts), form |-> "", pairs |-> << >>,
      tokens |-> ts] : ts \in RangeTokenLists}

(* ------------------------------------------------------------------ *)
(* tagFilterHandler: /tag/<category>/<value>[/and/tag/<category>/<value>]* *)
(* ------------------------------------------------------------------ *)

Slash == << "/" >>

TagPrefix == << "/", "t", "a", "g", "/" >>

AndTagSep == << "/", "a", "n", "d", "/", "t", "a", "g", "/" >>

Unassigned == << "u", "n", "a", "s", "s", "i", "g", "n", "e", "d" >>

DefaultPerPage == 50

TrimPrefix(s, prefix) ==
    IF HasPrefix(s, prefix) THEN SubSeq(s, Len(prefix) + 1, Len(s)) ELSE s

\* page := 1, replaced by the page parameter when it parses to a positive number
PageOf(pageStr) ==
    LET parsed == Atoi(pageStr)
    IN IF pageStr # EmptyStr /\ parsed.ok /\ parsed.val > 0 THEN parsed.val ELSE 1

\* perPage := 50, replaced by config.ItemsPerPage when it parses to a positive number
PerPageOf(itemsPerPage) ==
    LET parsed == Atoi(itemsPerPage)
    IN IF itemsPerPage # EmptyStr /\ parsed.ok /\ parsed.val > 0 THEN parsed.val
       ELSE DefaultPerPage

\* the loop over tagPairs: a filter per pair, or an error for a pair that is not
\* <category>/<value>
RECURSIVE ParseFilters(_)
ParseFilters(tagPairs) ==
    IF tagPairs = << >> THEN [ok |-> TRUE, filters |-> << >>]
    ELSE LET parts == Split(Head(tagPairs), Slash)
             rest == ParseFilters(Tail(tagPairs))
         IN IF Len(parts) # 2 \/ ~rest.ok THEN [ok |-> FALSE, filters |-> << >>]
            ELSE [ok |-> TRUE,
                  filters |->
                     << [Category |-> parts[1], Value |-> parts[2],
                         Values |-> IF parts[2] # Unassigned
                                    THEN expandTagWithAliases(parts[1], parts[2])
                                    ELSE << >>] >> \o rest.filters]

\* the clause with unassigned meaning a file without any tag
FilterClauseUntagged(d, fileID, f) ==
    IF f.Value = Unassigned
    THEN ~\E ft \in d.file_tags : ft.file_id = fileID
    ELSE \E ft \in d.file_tags, t \in d.tags, c \in d.categories :
             /\ ft.file_id = fileID /\ ft.tag_id = t.id /\ c.id = t.category_id
             /\ c.name = f.Category /\ t.value \in SeqToSet(f.Values)

\* the clause of one filter for one file: NOT EXISTS (... c.name = ?) for unassigned,
\* EXISTS (... c.name = ? AND t.value IN (...)) otherwise
FilterClause(d, fileID, f) ==
    IF f.Value = Unassigned
    THEN ~\E ft \in d.file_tags, t \in d.tags, c \in d.categories :
             /\ ft.file_id = fileID /\ ft.tag_id = t.id /\ c.id = t.category_id
             /\ c.name = f.Category
    ELSE \E ft \in d.file_tags, t \in d.tags, c \in d.categories :
             /\ ft.file_id = fileID /\ ft.tag_id = t.id /\ c.id = t.category_id
             /\ c.name = f.Category /\ t.value \in SeqToSet(f.Values)

\* ... FROM files f WHERE 1=1 AND <clause> AND <clause> ...
FilteredIDs(d, filters) ==
    {f.id : f \in {g \in d.files :
        \A i \in 1..Len(filters) : FilterClause(d, g.id, filters[i])}}

\* SELECT COUNT(DISTINCT f.id) ...
CountFiltered(d, filters) == Cardinality(FilteredIDs(d, filters))

\* ORDER BY f.id DESC over a set of ids
RECURSIVE Descending(_)
Descending(S) ==
    IF S = {} THEN << >>
    ELSE LET m == CHOOSE x \in S : \A y \in S : y <= x
         IN << m >> \o Descending(S \ {m})

\* LIMIT perPage OFFSET offset over the ordered rows
LimitOffset(rows, perPage, offset) ==
    SubSeq(rows, offset + 1, IF offset + perPage < Len(rows) THEN offset + perPage ELSE Len(rows))

\* the page read in ascending order of id
QueryFilteredAscending(d, filters, page, perPage) ==
    LimitOffset(Ascending(FilteredIDs(d, filters)), perPage, (page - 1) * perPage)

\* ... ORDER BY f.id DESC LIMIT ? OFFSET ? with offset := (page - 1) * perPage
QueryFiltered(d, filters, page, perPage) ==
    LimitOffset(Descending(FilteredIDs(d, filters)), perPage, (page - 1) * perPage)

\* calculatePagination: totalPages
TotalPages(total, perPage) ==
    LET totalPages == (total + perPage - 1) \div perPage
    IN IF totalPages < 1 THEN 1 ELSE totalPages

FormatFilter(pair) == pair.Category \o Slash \o pair.Value

RECURSIVE JoinFilters(_)
JoinFilters(pairs) ==
    IF Len(pairs) = 1 THEN FormatFilter(pairs[1])
    ELSE FormatFilter(pairs[1]) \o AndTagSep \o JoinFilters(Tail(pairs))

CatD == << "d" >>

ValZ == << "z" >>

ValW == << "w" >>

FilterPairs ==
    { << [Category |-> CatC, Value |-> ValX] >>,
      << [Category |-> CatC, Value |-> ValY] >>,
      << [Category |-> CatC, Value |-> ValZ] >>,
      << [Category |-> CatC, Value |-> ValW] >>,
      << [Category |-> CatC, Value |-> ToUpper(ValX)] >>,
      << [Category |-> CatD, Value |-> ValX] >>,
      << [Category |-> CatC, Value |-> Unassigned] >>,
      << [Category |-> CatD, Value |-> Unassigned] >>,
      << [Category |-> CatC, Value |-> ValX], [Category |-> CatD, Value |-> ValX] >>,
      << [Category |-> CatC, Value |-> ValY], [Category |-> CatD, Value |-> Unassigned] >> }

\* the request paths: the filters above, and a path that is no <category>/<value>
FilterRequests ==
    {[mode |-> "filter", text |-> TagPrefix \o JoinFilters(ps), form |-> "", pairs |-> ps] :
        ps \in FilterPairs}
    \cup {[mode |-> "filter", text |-> TagPrefix \o CatC, form |-> "", pairs |-> << >>]}

PageParams == {EmptyStr, << "2" >>}

\* the page and perPage parameters, the filters of the path, and the count query
FilterStart(p, req, pageStr) ==
    /\ Idle(p)
    /\ pre' = [pre EXCEPT ![p] = Snapshot]
    /\ UNCHANGED << disk, thumbs, db, tx, obs, config >>
    /\ LET parsed == ParseFilters(Split(TrimPrefix(req.text, TagPrefix), AndTagSep))
           l == [NoLoc EXCEPT !.op = "filter", !.sel = req,
                              !.page = PageOf(pageStr),
                              !.perPage = PerPageOf(config.ItemsPerPage),
                              !.filters = parsed.filters]
       IN IF ~parsed.ok THEN Return(p, l, "invalid", "path")
          ELSE \/ Goto(p, [l EXCEPT !.total = CountFiltered(db, parsed.filters)], "f_query")
               \/ Return(p, l, "error", "count")

\* queryFilesWithTags(query, args...) and the page that is rendered
FilterQuery(p) ==
    /\ pc[p] = "f_query"
    /\ UNCHANGED << disk, thumbs, db, tx, pre, obs, config >>
    /\ \/ Return(p, [loc[p] EXCEPT !.ids = QueryFiltered(db, loc[p].filters,
                                                        loc[p].page, loc[p].perPage)],
                 "ok", "")
       \/ Return(p, loc[p], "error", "fetch")

Filter(p) ==
    \/ \E req \in FilterRequests, pageStr \in PageParams : FilterStart(p, req, pageStr)
    \/ FilterQuery(p)

(* ------------------------------------------------------------------ *)
(* orphansHandler: getOrphanedFiles(config.UploadDir)                  *)
(* ------------------------------------------------------------------ *)

\* getFilesOnDisk(uploadDir): os.ReadDir and the filter of the directories
OrphansList(p) ==
    /\ Idle(p)
    /\ pre' = [pre EXCEPT ![p] = Snapshot]
    /\ UNCHANGED << disk, thumbs, db, tx, obs, config >>
    /\ LET l == [NoLoc EXCEPT !.op = "orphans"]
       IN \/ \E withDir \in BOOLEAN :
                Goto(p, [l EXCEPT !.listed = NonDirNames(ReadDir(disk, withDir)),
                                  !.seen = getOrphanedFiles(disk, db)], "o_query")
          \/ Return(p, l, "error", "readdir")

\* getFilesInDB() and the loop that keeps the listed names that are not in the map
OrphansQuery(p) ==
    /\ pc[p] = "o_query"
    /\ UNCHANGED << disk, thumbs, db, tx, pre, obs, config >>
    /\ \/ Return(p, [loc[p] EXCEPT !.orphans = Orphaned(loc[p].listed, getFilesInDB(db))],
                 "ok", "")
       \/ Return(p, loc[p], "error", "query")

Orphans(p) == OrphansList(p) \/ OrphansQuery(p)

(* ------------------------------------------------------------------ *)
(* Specifications                                                      *)
(* ------------------------------------------------------------------ *)

Lifecycle(p) == Upload(p) \/ Rename(p) \/ Delete(p)

\* one request at a time: upload, rename and delete, every step of which may fail
NextLife == Lifecycle(1)

SpecLife == Init /\ [][NextLife]_vars

\* a stream of lifecycle requests handled concurrently with a stream of uploads
NextRace == Lifecycle(1) \/ Upload(2)

InitRace ==
    /\ disk = EmptyDisk
    /\ thumbs = {}
    /\ db = EmptyDB
    /\ tx = NoTx
    /\ pc = [p \in Procs |-> "idle"]
    /\ loc = [p \in Procs |-> NoLoc]
    /\ pre = [p \in Procs |-> NoSnap]
    /\ obs = FALSE
    /\ everCleanupFailed = FALSE
    /\ config = LoadedConfig

SpecRace == InitRace /\ [][NextRace]_vars

\* lifecycle requests and orphan listings, one request at a time
NextOrphans == Lifecycle(1) \/ Orphans(1)

SpecOrphans == Init /\ [][NextOrphans]_vars

\* orphan listings handled concurrently with a stream of lifecycle requests
NextOrphanRace == Lifecycle(1) \/ Orphans(2)

SpecOrphanRace == InitRace /\ [][NextOrphanRace]_vars

\* a catalog of two uploaded files, the video with its thumbnail
InitTagged(observed) ==
    /\ disk = Put(Put(EmptyDisk, NameA, "full"), NameV, "full")
    /\ thumbs = {NameV}
    /\ db = [EmptyDB EXCEPT !.files = {FileRow(1, NameA, JoinUploadDir(NameA)),
                                       FileRow(2, NameV, JoinUploadDir(NameV))},
                            !.seq = 2]
    /\ tx = NoTx
    /\ pc = [p \in Procs |-> "idle"]
    /\ loc = [p \in Procs |-> NoLoc]
    /\ pre = [p \in Procs |-> NoSnap]
    /\ obs = observed
    /\ everCleanupFailed = FALSE
    /\ config = LoadedConfig

\* tagging requests, one at a time
NextTagging == TagAdd(1, TagVals) \/ Bulk(1, BulkSelections, BulkChanges)

SpecTagging == InitTagged(TRUE) /\ [][NextTagging]_vars

\* the "newfilename" form values of a rename request: empty, blanks only, padded
\* with blanks, and plain names
BlankNames == {EmptyStr, Space, Space \o Space, Space \o NameB \o Space, NameB, NameA}

\* rename requests, one at a time, over the catalog of two uploaded files
NextRenameBlank ==
    \/ \E id \in 1..MaxFiles, raw \in BlankNames : RenameStart(1, id, raw)
    \/ RenameStat(1)
    \/ RenameFile(1)
    \/ RenameThumb(1)
    \/ RenameUpdate(1)

SpecRenameBlank == InitTagged(TRUE) /\ [][NextRenameBlank]_vars

\* a filename that sanitizeFilename changes; processUpload stores the name of the
\* multipart header as it is
NameDots == << "a", ".", ".", "b" >>

\* a catalog of two uploaded files, one of them named a..b
InitDotted ==
    /\ disk = Put(Put(EmptyDisk, NameA, "full"), NameDots, "full")
    /\ thumbs = {}
    /\ db = InsertFile(InsertFile(EmptyDB, NameA, JoinUploadDir(NameA)),
                       NameDots, JoinUploadDir(NameDots))
    /\ tx = NoTx
    /\ pc = [p \in Procs |-> "idle"]
    /\ loc = [p \in Procs |-> NoLoc]
    /\ pre = [p \in Procs |-> NoSnap]
    /\ obs = TRUE
    /\ everCleanupFailed = FALSE
    /\ config = LoadedConfig

SameNames == {NameA, NameDots, NameB}

\* rename requests, one at a time, that name the files a, a..b and b
NextRenameSame ==
    \/ \E id \in 1..MaxFiles, raw \in SameNames : RenameStart(1, id, raw)
    \/ RenameStat(1)
    \/ RenameFile(1)
    \/ RenameThumb(1)
    \/ RenameUpdate(1)

SpecRenameSame == InitDotted /\ [][NextRenameSame]_vars

\* a catalog of two uploaded files with descriptions, both tagged c:x
InitDescribed ==
    /\ disk = Put(Put(EmptyDisk, NameA, "full"), NameV, "full")
    /\ thumbs = {NameV}
    /\ db = [EmptyDB EXCEPT
                !.files = {[FileRow(1, NameA, JoinUploadDir(NameA)) EXCEPT !.description = ValX],
                           [FileRow(2, NameV, JoinUploadDir(NameV)) EXCEPT !.description = ValY]},
                !.categories = {[id |-> 1, name |-> CatC]},
                !.tags = {[id |-> 1, category_id |-> 1, value |-> ValX]},
                !.file_tags = {[file_id |-> 1, tag_id |-> 1], [file_id |-> 2, tag_id |-> 1]},
                !.seq = 2]
    /\ tx = NoTx
    /\ pc = [p \in Procs |-> "idle"]
    /\ loc = [p \in Procs |-> NoLoc]
    /\ pre = [p \in Procs |-> NoSnap]
    /\ obs = TRUE
    /\ everCleanupFailed = FALSE
    /\ config = LoadedConfig

\* rename requests, one at a time, over the described and tagged catalog
NextRenameTagged ==
    \/ \E id \in 1..MaxFiles, raw \in BlankNames : RenameStart(1, id, raw)
    \/ RenameStat(1)
    \/ RenameFile(1)
    \/ RenameThumb(1)
    \/ RenameUpdate(1)

SpecRenameTagged == InitDescribed /\ [][NextRenameTagged]_vars

RaceSelections == {sel \in RangeSelections : sel.text = << "2", ",", "1", "-", "2" >>}

RaceChanges == {BulkChange(CatC, ValX, "add")}

\* tagging requests handled concurrently with tagging and delete requests
NextTagRace ==
    \/ TagAdd(1, {ValX}) \/ Bulk(1, RaceSelections, RaceChanges)
    \/ TagAdd(2, {ValX}) \/ Delete(2)

SpecTagRace == InitTagged(TRUE) /\ [][NextTagRace]_vars

\* the catalogs the filter is asked about: three files, the tags c:x, c:y, c:z and
\* d:x, and any of these associations
FilterLinks ==
    {[file_id |-> 1, tag_id |-> 1], [file_id |-> 1, tag_id |-> 4],
     [file_id |-> 2, tag_id |-> 2], [file_id |-> 2, tag_id |-> 4],
     [file_id |-> 3, tag_id |-> 3]}

FilterCatalog(links) ==
    [files |-> {FileRow(1, NameA, JoinUploadDir(NameA)),
                FileRow(2, NameV, JoinUploadDir(NameV)),
                FileRow(3, NameB, JoinUploadDir(NameB))},
     categories |-> {[id |-> 1, name |-> CatC], [id |-> 2, name |-> CatD]},
     tags |-> {[id |-> 1, category_id |-> 1, value |-> ValX],
               [id |-> 2, category_id |-> 1, value |-> ValY],
               [id |-> 3, category_id |-> 1, value |-> ValZ],
               [id |-> 4, category_id |-> 2, value |-> ValX]},
     file_tags |-> links,
     seq |-> 3]

\* config.TagAliases: none, one group, a group of another category holding the
\* same literals, and two groups of one category that share a member
AliasConfigs ==
    { << >>,
      << [Category |-> CatC, Aliases |-> << ValX, ValY >>] >>,
      << [Category |-> CatD, Aliases |-> << ValX, ValY >>],
         [Category |-> CatC, Aliases |-> << ValX, ValZ >>] >>,
      << [Category |-> CatC, Aliases |-> << ValX, ValY >>],
         [Category |-> CatC, Aliases |-> << ValX, ValZ >>] >> }

ItemsPerPageConfigs == {<< "1" >>, << "2" >>, EmptyStr}

InitFilter ==
    /\ disk = Put(Put(Put(EmptyDisk, NameA, "full"), NameV, "full"), NameB, "full")
    /\ thumbs = {NameV}
    /\ \E links \in SUBSET FilterLinks : db = FilterCatalog(links)
    /\ tx = NoTx
    /\ pc = [p \in Procs |-> "idle"]
    /\ loc = [p \in Procs |-> NoLoc]
    /\ pre = [p \in Procs |-> NoSnap]
    /\ obs = TRUE
    /\ everCleanupFailed = FALSE
    /\ \E aliases \in AliasConfigs, items \in ItemsPerPageConfigs :
          config = [TagAliases |-> aliases, ItemsPerPage |-> items]

\* filter requests, one at a time, over a catalog that does not change
NextFilter == Filter(1)

SpecFilter == InitFilter /\ [][NextFilter]_vars

\* bulk requests selecting files by range, one at a time
NextRange == Bulk(1, RangeInputs, RaceChanges)

SpecRange == InitTagged(TRUE) /\ [][NextRange]_vars

(* ------------------------------------------------------------------ *)
(* Properties                                                          *)
(* ------------------------------------------------------------------ *)

Done(p, op) == pc[p] = "done" /\ loc[p].op = op

AssociationsOf(d, id) == {ft \in d.file_tags : ft.file_id = id}

\* the file carries the tag (category, value), literally
CarriesTag(d, fileID, pair) ==
    \E c \in d.categories, t \in d.tags :
        /\ c.name = pair.Category
        /\ t.category_id = c.id /\ t.value = pair.Value
        /\ [file_id |-> fileID, tag_id |-> t.id] \in d.file_tags

StrictlyAscending(q) == \A i \in 1..(Len(q) - 1) : q[i] < q[i + 1]

\* C1: a rename whose catalog UPDATE fails, and whose compensating renames
\* succeed, leaves the upload directory, the thumbnails and the catalog as they
\* were before the request, whatever thumbnails existed under either name.
C1_FailedUpdateRestoresState ==
    \A p \in Procs :
        (Done(p, "rename") /\ loc[p].failed = "update" /\ ~loc[p].cleanupFailed)
            => (disk = pre[p].disk /\ thumbs = pre[p].thumbs /\ db = pre[p].db)

\* C2: an upload that returns an error after the conflict check leaves neither
\* <final> nor <final>.tmp and adds no files row.
C2_FailedUploadLeavesNothing ==
    \A p \in Procs :
        (Done(p, "upload") /\ loc[p].res = "error" /\ ~loc[p].cleanupFailed)
            => /\ ~Exists(disk, loc[p].curPath)
               /\ ~Exists(disk, TmpPath(loc[p].curPath))
               /\ db = pre[p].db

\* C3: every file_tags row references a files row and a tags row that exist.
C3_NoOrphanAssociation ==
    \A ft \in db.file_tags :
        /\ \E f \in db.files : f.id = ft.file_id
        /\ \E t \in db.tags : t.id = ft.tag_id

\* C4: no two files rows have the same filename (no ignored cleanup having failed).
C4_UniqueFilenames ==
    ~everCleanupFailed => \A f, g \in db.files : f.filename = g.filename => f = g

\* C5: when no lifecycle operation is in progress, every files row has a
\* physical file at its path (no ignored cleanup having failed).
C5_RowsHaveFiles ==
    ((\A p \in Procs : Idle(p)) /\ ~everCleanupFailed)
        => \A f \in db.files : Exists(disk, f.path)

\* C6: a step of the delete transaction either leaves the committed catalog as
\* it is (a pending statement, or a failure that rolls back), or is the commit,
\* which removes the files row and all its file_tags rows at once and nothing else.
C6_DeleteIsAtomic ==
    [][\A p \in Procs :
          (pc[p] \in {"d_tags", "d_row", "d_commit"} /\ pc'[p] # pc[p])
              => \/ db' = db
                 \/ /\ pc[p] = "d_commit" /\ pc'[p] = "d_file"
                    /\ db' = DeleteFileRow(DeleteFileTagsOf(db, loc[p].id), loc[p].id)]_vars

\* a delete has committed for a file that had associations when it began
C6_Witness ==
    \E p \in Procs :
        /\ pc[p] = "d_file" /\ loc[p].op = "delete"
        /\ AssociationsOf(pre[p].db, loc[p].id) # {}
        /\ RowsById(db, loc[p].id) = {} /\ AssociationsOf(db, loc[p].id) = {}

C8_ThumbnailFollowsRename ==
    \A p \in Procs :
        (Done(p, "rename") /\ loc[p].res = "ok" /\ loc[p].cur # loc[p].name)
            => /\ loc[p].cur \in pre[p].thumbs => loc[p].name \in thumbs
               /\ loc[p].cur \notin thumbs

\* a file that had a thumbnail was renamed to another name
C8_Witness ==
    \E p \in Procs :
        /\ Done(p, "rename") /\ loc[p].res = "ok" /\ loc[p].cur # loc[p].name
        /\ loc[p].cur \in pre[p].thumbs /\ loc[p].name \in thumbs

\* C9: an OR-form tag query returns exactly the ids of the files that carry at
\* least one of its tags, category and value taken as written in the query.
C9_OrQueryIsUnion ==
    \A p \in Procs :
        (loc[p].op = "bulk" /\ loc[p].sel.form = "or")
            => SeqToSet(loc[p].ids) =
                  {f.id : f \in {g \in pre[p].db.files :
                      \E i \in 1..Len(loc[p].sel.pairs) :
                          CarriesTag(pre[p].db, g.id, loc[p].sel.pairs[i])}}

\* C10: an AND-form tag query returns, ascending and without duplicates, exactly
\* the ids of the files that carry every one of its tags literally: a file that
\* carries only an alias of a queried value is not returned.
C10_AndQueryIsIntersection ==
    \A p \in Procs :
        (loc[p].op = "bulk" /\ loc[p].sel.form = "and")
            => /\ ~(loc[p].res = "invalid" /\ loc[p].failed = "selection")
               /\ StrictlyAscending(loc[p].ids)
               /\ SeqToSet(loc[p].ids) =
                     {f.id : f \in {g \in pre[p].db.files :
                         \A i \in 1..Len(loc[p].sel.pairs) :
                             CarriesTag(pre[p].db, g.id, loc[p].sel.pairs[i])}}

\* an AND query matched a file while another file carried only an alias of the
\* queried value
C10_Witness ==
    \E p \in Procs :
        /\ loc[p].op = "bulk" /\ loc[p].sel.form = "and" /\ loc[p].ids # << >>
        /\ \E f \in pre[p].db.files, i \in 1..Len(loc[p].sel.pairs) :
              LET pair == loc[p].sel.pairs[i]
              IN /\ f.id \notin SeqToSet(loc[p].ids)
                 /\ ~CarriesTag(pre[p].db, f.id, pair)
                 /\ \E v \in SeqToSet(expandTagWithAliases(pair.Category, pair.Value)) :
                       CarriesTag(pre[p].db, f.id, [pair EXCEPT !.Value = v])

\* the alias groups of the category that hold the value, compared without case
MatchingGroups(category, value) ==
    {g \in 1..Len(config.TagAliases) :
        /\ config.TagAliases[g].Category = category
        /\ \E j \in 1..Len(config.TagAliases[g].Aliases) :
              EqualFold(config.TagAliases[g].Aliases[j], value)}

\* C11: the expansion of a filter value is the whole alias group of its category
\* that holds it without regard to case, with the value itself, and the value
\* alone when no group of the category holds it.
C11_ExpansionIsWholeGroup ==
    \A p \in Procs :
        loc[p].op = "filter" =>
            \A i \in 1..Len(loc[p].filters) :
                LET f == loc[p].filters[i]
                    matching == MatchingGroups(f.Category, f.Value)
                IN f.Value # Unassigned =>
                      IF matching = {} THEN SeqToSet(f.Values) = {f.Value}
                      ELSE \E g \in matching :
                              SeqToSet(f.Values) =
                                 SeqToSet(config.TagAliases[g].Aliases) \cup {f.Value}

\* the files that carry the tag (category, value)
FilesTagged(d, category, value) ==
    {f.id : f \in {g \in d.files :
        CarriesTag(d, g.id, [Category |-> category, Value |-> value])}}

\* C12: a filter on a member of an alias group of its category returns every file
\* tagged with any member of that group, and a filter on a value that is in no
\* group of its category returns exactly the files tagged with that value.
C12_AliasesAreSymmetric ==
    \A p \in Procs :
        (loc[p].op = "filter" /\ Len(loc[p].filters) = 1
         /\ loc[p].filters[1].Value # Unassigned)
            => LET f == loc[p].filters[1]
                   found == FilteredIDs(db, loc[p].filters)
               IN /\ \A g \in 1..Len(config.TagAliases) :
                        (/\ config.TagAliases[g].Category = f.Category
                         /\ f.Value \in SeqToSet(config.TagAliases[g].Aliases))
                            => \A b \in SeqToSet(config.TagAliases[g].Aliases) :
                                  FilesTagged(db, f.Category, b) \subseteq found
                  /\ MatchingGroups(f.Category, f.Value) = {}
                        => found = FilesTagged(db, f.Category, f.Value)

\* the files with an association to some tag of the category
FilesWithCategory(d, category) ==
    {ft.file_id : ft \in {x \in d.file_tags :
        \E t \in d.tags, c \in d.categories :
            x.tag_id = t.id /\ t.category_id = c.id /\ c.name = category}}

\* C13: a filter on <category>/unassigned counts and lists exactly the files
\* without an association to any tag of that category.
C13_UnassignedIsNoTagOfCategory ==
    \A p \in Procs :
        (loc[p].op = "filter" /\ Len(loc[p].sel.pairs) = 1
         /\ loc[p].sel.pairs[1].Value = Unassigned)
            => LET expected == {f.id : f \in db.files}
                                  \ FilesWithCategory(db, loc[p].sel.pairs[1].Category)
               IN /\ loc[p].res # "invalid"
                  /\ FilteredIDs(db, loc[p].filters) = expected
                  /\ (pc[p] = "f_query" \/ loc[p].res = "ok")
                        => loc[p].total = Cardinality(expected)
                  /\ loc[p].res = "ok"
                        => loc[p].ids = LimitOffset(Descending(expected), loc[p].perPage,
                                                    (loc[p].page - 1) * loc[p].perPage)

\* an unassigned filter listed a file tagged only in another category and a file
\* without tags, and left out a file tagged in the category
C13_Witness ==
    \E p \in Procs :
        /\ Done(p, "filter") /\ loc[p].res = "ok" /\ Len(loc[p].sel.pairs) = 1
        /\ loc[p].sel.pairs[1].Value = Unassigned
        /\ \E f, g, h \in db.files :
              /\ FilesWithCategory(db, loc[p].sel.pairs[1].Category) = {h.id}
              /\ AssociationsOf(db, f.id) # {} /\ AssociationsOf(db, g.id) = {}
              /\ {f.id, g.id} \subseteq SeqToSet(loc[p].ids)
              /\ h.id \notin SeqToSet(loc[p].ids)

\* the file satisfies the clause of the pair: no tag of the category for
\* unassigned, a tag of the category with a value of the expansion otherwise
ClauseHolds(d, fileID, pair) ==
    IF pair.Value = Unassigned THEN fileID \notin FilesWithCategory(d, pair.Category)
    ELSE \E v \in SeqToSet(expandTagWithAliases(pair.Category, pair.Value)) :
            CarriesTag(d, fileID, [Category |-> pair.Category, Value |-> v])

\* the files that satisfy the clause of every pair
MatchesAll(d, pairs) ==
    {f.id : f \in {g \in d.files : \A i \in 1..Len(pairs) : ClauseHolds(d, g.id, pairs[i])}}

\* the rank of an id among the matches, by id descending
RankIn(S, id) == Cardinality({x \in S : x >= id})

StrictlyDescending(q) == \A i \in 1..(Len(q) - 1) : q[i] > q[i + 1]

\* C14: the total of a filter is the number of files that satisfy every clause,
\* page p of size n lists, by id descending, exactly the matches ranked
\* (p-1)*n+1 .. p*n, and over the pages 1..totalPages every match is listed once.
C14_PagesPartitionMatches ==
    \A p \in Procs :
        (loc[p].op = "filter" /\ loc[p].sel.pairs # << >>)
            => LET expected == MatchesAll(db, loc[p].sel.pairs)
                   n == loc[p].perPage
                   pages == 1..TotalPages(Cardinality(expected), n)
                   listed(q) == SeqToSet(QueryFiltered(db, loc[p].filters, q, n))
               IN /\ (pc[p] = "f_query" \/ loc[p].res = "ok")
                        => loc[p].total = Cardinality(expected)
                  /\ loc[p].res = "ok"
                        => /\ StrictlyDescending(loc[p].ids)
                           /\ SeqToSet(loc[p].ids) =
                                 {id \in expected :
                                     /\ (loc[p].page - 1) * n + 1 <= RankIn(expected, id)
                                     /\ RankIn(expected, id) <= loc[p].page * n}
                  /\ UNION {listed(q) : q \in pages} = expected
                  /\ \A q, r \in pages : q # r => listed(q) \cap listed(r) = {}

\* a filter of two pairs matched two files and its second page listed the one
\* with the lower id
C14_Witness ==
    \E p \in Procs :
        /\ Done(p, "filter") /\ loc[p].res = "ok" /\ Len(loc[p].sel.pairs) = 2
        /\ loc[p].total = 2 /\ loc[p].page = 2 /\ loc[p].perPage = 1
        /\ \E f, g \in db.files :
              f.id < g.id /\ MatchesAll(db, loc[p].sel.pairs) = {f.id, g.id}
                          /\ loc[p].ids = << f.id >>

\* a bulk request selecting by a range string written from tokens
RangeRequest(p) ==
    loc[p].op = "bulk" /\ loc[p].sel.mode = "range" /\ "tokens" \in DOMAIN loc[p].sel

TokensOf(p) == loc[p].sel.tokens

NoDuplicates(q) == \A i, j \in 1..Len(q) : q[i] = q[j] => i = j

\* C15: for a range string whose tokens are all valid, parseFileIDRange returns a
\* list without duplicates whose set is the union of the ids and inclusive ranges
\* of the tokens, whatever their order, repetition or overlap.
C15_RangeIsUnionOfTokens ==
    \A p \in Procs :
        (RangeRequest(p) /\ \A i \in 1..Len(TokensOf(p)) : TokensOf(p)[i].ok)
            => /\ loc[p].failed # "selection"
               /\ NoDuplicates(loc[p].ids)
               /\ SeqToSet(loc[p].ids) =
                     UNION {TokensOf(p)[i].ids : i \in 1..Len(TokensOf(p))}

\* a range string with a repeated id and an overlapping range was parsed
C15_Witness ==
    \E p \in Procs :
        /\ RangeRequest(p) /\ Len(TokensOf(p)) = 3
        /\ \A i \in 1..3 : TokensOf(p)[i].ok
        /\ TokensOf(p)[1] = TokensOf(p)[3] /\ TokensOf(p)[2].ids = {1, 2}
        /\ loc[p].ids = << 2, 1 >>

\* C16: if a token of the range string is not a number, or is a range with
\* start > end, the parse fails naming the first such token and returns no ids,
\* and the request ends without changing the catalog.
C16_BadTokenFailsParse ==
    \A p \in Procs :
        (RangeRequest(p) /\ \E i \in 1..Len(TokensOf(p)) : ~TokensOf(p)[i].ok)
            => LET first == CHOOSE i \in 1..Len(TokensOf(p)) :
                               /\ ~TokensOf(p)[i].ok
                               /\ \A j \in 1..(i - 1) : TokensOf(p)[j].ok
               IN /\ pc[p] = "done" /\ loc[p].res = "invalid"
                  /\ loc[p].failed = "selection"
                  /\ loc[p].ids = << >>
                  /\ loc[p].bad = TrimSpace(TokensOf(p)[first].text)
                  /\ db = pre[p].db

\* a parse failed on a token that valid tokens precede and follow
C16_Witness ==
    \E p \in Procs :
        /\ RangeRequest(p) /\ Len(TokensOf(p)) = 3
        /\ TokensOf(p)[1].ok /\ ~TokensOf(p)[2].ok /\ TokensOf(p)[3].ok
        /\ loc[p].res = "invalid" /\ loc[p].bad = TokensOf(p)[2].text

\* C17: validateFileIDs reports exactly the requested ids without a files row,
\* and when there is one the bulk request ends there: no tag change is applied
\* to any file, the requested files that exist included.
C17_MissingIDsBlockBulk ==
    \A p \in Procs :
        LET absent == SeqToSet(loc[p].ids) \ {f.id : f \in pre[p].db.files}
        IN (loc[p].op = "bulk" /\ loc[p].failed \notin {"form", "selection"}
            /\ absent # {})
               => /\ pc[p] \in {"b_validate", "done"}
                  /\ pc[p] = "done"
                        => /\ loc[p].res \in {"invalid", "error"}
                           /\ loc[p].failed = "validate" => loc[p].missing = absent
                           /\ db = pre[p].db

\* a bulk request for an existing and a missing file was refused
C17_Witness ==
    \E p \in Procs :
        /\ Done(p, "bulk") /\ loc[p].failed = "validate" /\ loc[p].missing = {3}
        /\ \E f \in db.files : f.id \in SeqToSet(loc[p].ids)
        /\ db = pre[p].db

\* the steps at which applyBulkTagOperations returns an error
ApplyFailures ==
    {"apply_check", "begin", "no_category", "category", "no_tag", "tag",
     "invalid_op", "exec", "commit"}

\* C18: a bulk request whose applyBulkTagOperations returns an error leaves
\* categories, tags and file_tags as they were before the call, whatever rows the
\* call created and whatever files it had already changed.
C18_BulkIsAllOrNothing ==
    \A p \in Procs :
        (Done(p, "bulk") /\ loc[p].res = "error" /\ loc[p].failed \in ApplyFailures)
            => /\ db.categories = pre[p].db.categories
               /\ db.tags = pre[p].db.tags
               /\ db.file_tags = pre[p].db.file_tags
               /\ tx = NoTx

\* the statement for the second file failed in a call that had created the
\* category and the tag and had changed the first file
C18_Witness ==
    \E p \in Procs :
        /\ Done(p, "bulk") /\ loc[p].res = "error" /\ loc[p].failed = "exec"
        /\ loc[p].k = 2 /\ loc[p].oper = "add"
        /\ pre[p].db.categories = {} /\ pre[p].db.tags = {}
        /\ db = pre[p].db

\* C19: a single tag add that fails after the category or the tag row was created
\* leaves categories, tags and file_tags as they were before the request.
C19_TagAddIsAtomic ==
    \A p \in Procs :
        (Done(p, "tag") /\ loc[p].res = "error")
            => /\ db.categories = pre[p].db.categories
               /\ db.tags = pre[p].db.tags
               /\ db.file_tags = pre[p].db.file_tags

\* C20: a rename request whose new name is empty or only whitespace ends with a
\* validation error, and the disk, the thumbnails and the catalog are as they were
\* before the request.
C20_BlankRenameIsRejected ==
    \A p \in Procs :
        (Done(p, "rename") /\ TrimSpace(loc[p].raw) = EmptyStr)
            => /\ loc[p].res = "invalid"
               /\ disk = pre[p].disk
               /\ thumbs = pre[p].thumbs
               /\ db = pre[p].db

\* the request of p is an upload to, or a rename of a catalogued file to, a path at
\* which another file existed when the request began
TargetExisted(p) ==
    /\ pc[p] # "idle"
    /\ Exists(pre[p].disk, JoinUploadDir(loc[p].name))
    /\ \/ loc[p].op = "upload"
       \/ /\ loc[p].op = "rename"
          /\ \E f \in RowsById(pre[p].db, loc[p].id) : f.filename # loc[p].name

\* C21: an upload or a rename whose target path already holds a file ends with a
\* conflict error, and at every step of the request the disk, the thumbnails and the
\* catalog are what they were when the request began (no <final>.tmp, no rename).
C21_ConflictBeforeMutation ==
    \A p \in Procs :
        TargetExisted(p)
            => /\ disk = pre[p].disk
               /\ thumbs = pre[p].thumbs
               /\ db = pre[p].db
               /\ pc[p] \in {"r_stat", "done"}
               /\ pc[p] = "done" => loc[p].res = "conflict"

\* an upload of v.mp4 was refused while v.mp4 and its thumbnail exist
C21_Witness ==
    \E p \in Procs :
        /\ Done(p, "upload") /\ TargetExisted(p)
        /\ loc[p].name = NameV /\ NameV \in thumbs
        /\ loc[p].res = "conflict"

\* the step of p is an INSERT of getOrCreateCategoryAndTag for a key that another
\* call created after p had found it absent
LostInsertRace(p) ==
    /\ pc'[p] # pc[p]
    /\ \/ pc[p] = "t_inscat" /\ CategoryIds(db, loc[p].cat) # {}
       \/ pc[p] = "t_instag" /\ TagIds(db, loc[p].catID, loc[p].val) # {}

\* C22: the call that loses the unique-constraint race goes on with the ids of the
\* existing rows instead of failing, and the key keeps exactly one categories row and
\* one tags row.
C22_LoserRereads ==
    [][\A p \in Procs :
          LostInsertRace(p)
              => /\ pc'[p] \in {"t_seltag", "t_link"}
                 /\ loc'[p].catID \in CategoryIds(db', loc[p].cat)
                 /\ pc'[p] = "t_link" => loc'[p].tagID \in TagIds(db', loc[p].catID, loc[p].val)
                 /\ Cardinality(CategoryIds(db', loc[p].cat)) = 1]_vars

\* C23: at every step of an upload, also one that fails, a file at a final name holds
\* complete content; content that is still being written is only at <final>.tmp.
C23_FinalNameIsComplete ==
    \A filename \in UploadNames :
        Exists(disk, JoinUploadDir(filename)) => disk[JoinUploadDir(filename)] = "full"

\* C24: getOrphanedFiles returns exactly the names of the files of the upload root
\* that are the filename of no files row, and changes neither the disk nor the
\* catalog.
C24_OrphansAreDiskMinusCatalog ==
    \A p \in Procs :
        (Done(p, "orphans") /\ loc[p].res = "ok")
            => /\ loc[p].orphans =
                     {n \in DOMAIN disk : ~\E f \in db.files : f.filename = n}
               /\ disk = pre[p].disk
               /\ thumbs = pre[p].thumbs
               /\ db = pre[p].db

\* the listing told a catalogued file from an orphan while thumbnails/ exists
C24_Witness ==
    \E p \in Procs :
        /\ Done(p, "orphans") /\ loc[p].res = "ok"
        /\ loc[p].orphans # {} /\ loc[p].orphans # DOMAIN disk
        /\ thumbs # {}

\* C30: every name a getOrphanedFiles call reports was, in one of the states the call
\* lived through, on disk and the filename of no files row.  A call that has listed
\* the disk can read the catalog in any later state, and then reports the listed
\* names the catalog lacks.
C30_ReportedWasOrphan ==
    \A p \in Procs :
        pc[p] = "o_query"
            => Orphaned(loc[p].listed, getFilesInDB(db)) \subseteq loc[p].seen

\* C25: a rename request whose new name is the current filename of the file reports
\* success and leaves the disk, the thumbnails and the catalog as they were.
C25_SameNameIsNoOp ==
    \A p \in Procs :
        (Done(p, "rename")
            /\ \E f \in RowsById(pre[p].db, loc[p].id) : f.filename = loc[p].raw)
            => /\ loc[p].res = "ok"
               /\ disk = pre[p].disk
               /\ thumbs = pre[p].thumbs
               /\ db = pre[p].db

C27_RemoveOnlyAfterCommit ==
    \A p \in Procs :
        (loc[p].op = "delete" /\ pc[p] # "idle")
            => /\ (pc[p] \in {"d_begin", "d_tags", "d_row", "d_commit"}
                      \/ (pc[p] = "done" /\ loc[p].res # "ok"))
                  => /\ disk = pre[p].disk
                     /\ thumbs = pre[p].thumbs
               /\ (pc[p] = "done" /\ loc[p].failed # "")
                  => loc[p].res \in {"error", "notfound"}
               /\ (disk # pre[p].disk \/ thumbs # pre[p].thumbs)
                  => RowsById(db, loc[p].id) = {}

\* the commit of a delete of v.mp4 failed: the file and its thumbnail are on disk
C27_Witness ==
    \E p \in Procs :
        /\ Done(p, "delete") /\ loc[p].res = "error" /\ loc[p].failed = "commit"
        /\ loc[p].cur = NameV
        /\ Exists(disk, JoinUploadDir(NameV)) /\ NameV \in thumbs
        /\ RowsById(db, loc[p].id) # {}

\* C28: in every state where no request is in progress and no attempted cleanup has
\* failed, each thumbnail thumbnails/<n>.jpg has a files row whose filename is n.
C28_ThumbnailHasRow ==
    ((\A p \in Procs : Idle(p)) /\ ~everCleanupFailed)
        => \A n \in thumbs : \E f \in db.files : f.filename = n

\* C29: a successful rename changes only the filename and the path of the renamed
\* files row, the path being the upload root joined with the new filename: every row
\* keeps its id and its description, every other row is unchanged, and so are the
\* categories, the tags and the file_tags.
C29_RenameChangesNameAndPathOnly ==
    \A p \in Procs :
        (Done(p, "rename") /\ loc[p].res = "ok")
            => /\ Cardinality(db.files) = Cardinality(pre[p].db.files)
               /\ \A f \in pre[p].db.files :
                     \E g \in db.files :
                        /\ g.id = f.id
                        /\ g.description = f.description
                        /\ f.id # loc[p].id => g = f
                        /\ f.id = loc[p].id
                              => /\ g.filename = loc[p].name
                                 /\ g.path = JoinUploadDir(loc[p].name)
               /\ db.categories = pre[p].db.categories
               /\ db.tags = pre[p].db.tags
               /\ db.file_tags = pre[p].db.file_tags

\* the described and tagged file a was renamed to b
C29_Witness ==
    \E p \in Procs :
        /\ Done(p, "rename") /\ loc[p].res = "ok" /\ loc[p].cur = NameA
        /\ \E g \in db.files :
              /\ g.id = loc[p].id /\ g.filename = NameB /\ g.description # EmptyStr
              /\ AssociationsOf(db, g.id) # {}
        /\ db # pre[p].db

====
